---- MODULE Spec2Model ----
(***************************************************************************)
(* Light-client synchronisation engine of the wallet node:                 *)
(*   - LimitedSemaphore (chia/util/limited_semaphore.py),                  *)
(*   - the priority lock taken by the three peer-event handlers of         *)
(*     WalletNode (chia/wallet/wallet_node.py),                            *)
(*   - receive_state_from_peer and the race cache of WalletNode.           *)
(* Each part has its own specification over the shared variables; a part   *)
(* leaves the variables of the other parts unchanged.                      *)
(***************************************************************************)
EXTENDS Integers, Sequences, FiniteSets, TLC

None == "None"
\* None where the other values are integers (heights, permits, task ids)
NoneInt == 0 - 1
\* None where the other values are tasks (the holder of the priority lock)
NoHolder == <<"None", 0>>

(***************************************************************************)
(* Bounds of the model.                                                    *)
(***************************************************************************)
\* tasks that call LimitedSemaphore.acquire
NumSemTasks == 4
\* nesting depth of acquire calls inside one task (re-entry)
MaxDepth == 2
\* create(active_limit, waiting_limit) is called with 1..MaxActiveLimit
MaxActiveLimit == 2
\* ... and 0..MaxWaitingLimit
MaxWaitingLimit == 1
\* clients of each kind that queue for the priority lock (lock-level model)
MaxPerKind == 3
\* maxsize of the lock queue in the lock-level model
MaxQueue == 9
\* distinct coin states a peer reports; a batch of n items is the coin
\* states 1 .. n
NumCoinStates == 3
\* state-update handlers, new-peak handlers and subscription items of a run
NumUpdates == 2
NumPeaks == 2
MaxSubs == 1
\* heights and weights of the blocks the peers announce: 1 .. MaxHeight
MaxHeight == 2
\* maxsize of the lock queue in the node-level model.  The source passes
\* 10 * LONG_SYNC_THRESHOLD; the model scales it down with the number of
\* handlers so that the queue can fill.
NodeMaxQueue == 2
\* permits of the validation semaphore.  The source creates
\* asyncio.Semaphore(6); the model scales the permits down with the batch
\* size so that a batch can exceed them.
ValidationPermits == 2
\* heights at which the coin of a reported coin state is created or spent,
\* and fork heights: 1 .. MaxCoinHeight
MaxCoinHeight == 2
\* calls of validate_received_state_from_peer in a run (one peer, one cache)
MaxValidations == 2
\* distinct weight proofs a peer can send (and peak heights and weights they
\* end at)
NumProofs == 2
\* blocks by which a new peak is ahead of the highest block it shares with
\* the local chain, at most
MaxBacktrack == 4
\* puzzle hashes and coin ids the wallet can come to be interested in:
\* 1 .. MaxPuzzleHashes and 1 .. MaxCoinIds
MaxPuzzleHashes == 2
MaxCoinIds == 3
\* items of a batch given to receive_state_from_peer, counted only: 0 .. MaxBatch
MaxBatch == 30
\* weights of the last recent-chain block of a weight proof
MaxProofWeight == 6
\* new-peak handlers that take the untrusted long-sync branch
NumSyncs == 3
\* header blocks in the range fetched by validate_block_inclusion
MaxRange == 52

VARIABLES
    \* ---- LimitedSemaphore ----
    active_limit,        \* argument of create()
    waiting_limit,       \* argument of create()
    _available_count,    \* LimitedSemaphore._available_count
    _semaphore,          \* value (free permits) of LimitedSemaphore._semaphore
    _active_tasks,       \* keys of LimitedSemaphore._active_tasks
    frames,              \* per task: its acquire calls in progress, innermost last
    last_event,          \* how the latest acquire call or exit went
    \* ---- priority lock (_new_peak_lock_queue) ----
    held,                \* the critical section is occupied
    holder,              \* who occupies it (NoHolder when free)
    queues,              \* per class 0, 1, 2: the waiters, oldest first
    in_queue,            \* number of queued waiters
    max_queue,           \* maxsize given to LockQueue
    \* ---- lock-level model: anonymous clients of the three LockClients ----
    arrived,             \* per kind: how many clients have queued so far
    grants,              \* waiters handed the lock since the latest arrival
    last_arrival,        \* how the latest `async with` entry went
    \* ---- race cache ----
    race_cache,          \* WalletNode.race_cache: header hash -> set of coin states
    race_cache_hashes,   \* WalletNode.race_cache_hashes: list of <<height, header hash>>
    race_inserted,       \* every <<header hash, height, coin state>> passed to the cache
    race_last,           \* <<header hash, height>> of the latest insertion, or None
    \* ---- receive_state_from_peer ----
    recv_pc,             \* position of the receive_state_from_peer call
    recv_args,           \* its arguments: trusted, fork_height, height, header_hash, n
    task_pc,             \* position of each receive_and_validate task
    validation_semaphore, \* WalletNode.validation_semaphore: NoneInt or free permits
    sem_waiters,         \* tasks waiting on validation_semaphore, in order
    new_state_lock,      \* WalletNode.new_state_lock: NoneInt, 0 (free) or its holder
    lock_waiters,        \* tasks waiting on new_state_lock, in order
    validated,           \* per item: what the validator was asked and answered
    wallet_log,          \* wallet_state_manager calls of this call, in order
    \* ---- the three peer-event handlers of WalletNode ----
    subscription_queue,  \* WalletNode.subscription_queue: items not yet taken
    subs_added,          \* items put on the queue so far
    sub_pc,              \* position of _process_new_subscriptions
    sub_peer,            \* index of the peer its loop is at
    upd_pc,              \* position of each state_update_received handler
    upd_key,             \* <<peer, height>> of the update each one carries
    peak_pc,             \* position of each new_peak_wallet handler
    peak_msg,            \* the NewPeakWallet each one carries
    _node_peaks,         \* WalletNode._node_peaks: peer -> height last announced
    wsm_lock,            \* wallet_state_manager.lock: its holder or None
    finished_sync_up_to, \* blockchain.get_finished_sync_up_to()
    peak_weight,         \* weight of blockchain.get_peak_block(), 0 for None
    synced_peers,        \* WalletNode.synced_peers
    before,              \* per new-peak: the updates delivered before it for its peer and height
    item_excludes,       \* new-peaks not yet in the section when the item in progress was taken
    lost_excludes,       \* the same for the items whose processing was abandoned
    \* ---- validate_received_state_from_peer ----
    val_pc,              \* position of the validate_received_state_from_peer call
    val_args,            \* its arguments, the local coin record, and whether the
                         \* state was in states_validated at entry
    val_log,             \* calls on the peer and block-inclusion checks of this call, in order
    val_result,          \* "none", "true", "false" or "raised"
    val_closed,          \* code given to peer.close, or NoneInt
    val_additions,       \* what request_and_validate_additions answered
    val_block,           \* the block under check: "created", "old_spent" or "spent"
    states_validated,    \* peer_request_cache.states_validated (the coin states)
    cache_blocks,        \* peer_request_cache.blocks (the heights)
    val_calls,            \* calls made so far
    \* ---- fetch_and_validate_the_weight_proof ----
    wp_pc,               \* position of the fetch_and_validate_the_weight_proof call
    wp_peak,             \* its peak argument
    wp_proof,            \* hash of the weight proof under validation
    valid_wp_cache,      \* WalletNode.valid_wp_cache: proof hash -> cached result
    wp_prev,             \* the call that finished before the latest one
    wp_last,              \* the latest finished call
    \* ---- wallet_short_sync_backtrack ----
    bt_pc,               \* position of the wallet_short_sync_backtrack call
    bt_chain,            \* the local peak height, the height of header_block, the highest
                         \* height at which its chain is the local chain, and whether its
                         \* weight is at least the local peak's
    bt_top,              \* height of `top`
    bt_blocks,           \* heights of `blocks`, in order
    bt_fork_height,      \* `fork_height`
    bt_rollback,         \* argument of reorg_rollback, or None
    bt_caches,           \* argument of rollback_request_caches, or None
    bt_received,         \* heights of the blocks given to blockchain.receive_block, in order
    bt_result,            \* the value returned, None before, "raised" for an exception
    \* ---- long_sync: the subscription loops ----
    ls_pc,               \* position of the long_sync call
    continue_while,      \* `continue_while`
    all_puzzle_hashes,   \* `all_puzzle_hashes`
    already_checked_ph,  \* `already_checked_ph`
    all_coin_ids,        \* `all_coin_ids`
    already_checked_coin_ids, \* `already_checked_coin_ids`
    puzzle_store,        \* what get_puzzle_hashes_to_subscribe() returns now
    coin_store,          \* what get_coin_ids_to_subscribe(min_height) returns now
    ph_sent,             \* puzzle hashes sent to the peer by subscribe_to_phs
    coin_sent,            \* coin ids sent to the peer by subscribe_to_coin_updates
    \* ---- new_peak_wallet, short sync: replay of the race cache ----
    replayed,             \* header hashes whose states the latest replay fed to receive_state
    \* ---- PeerRequestCache.clear_after_height during a validation ----
    cleared_at,          \* lowest height the cache was truncated to since the validation in
                         \* progress (or the latest one) started, or NoneInt
    \* ---- receive_state_from_peer: admission of a batch, by counts ----
    adm_pc,              \* position of the receive_state_from_peer call
    adm_items,           \* len(items)
    adm_created,         \* coroutines appended to all_tasks so far
    adm_started,         \* tasks that gather has started
    adm_waiting,         \* len(validation_semaphore._waiters)
    adm_active,           \* tasks inside `async with self.validation_semaphore`
    \* ---- new_peak_wallet, untrusted long sync: the installed weight proof ----
    nwp_pc,              \* "idle", "validated", "installed", "synced", "closed", "ended"
    validated_proof,     \* weight of recent_chain_data[-1] of the proof just validated
    old_proof,           \* the same weight of blockchain.synced_weight_proof, read at 845
    synced_weight_proof, \* the same weight of the installed proof, NoneInt for None
    nwp_calls,            \* new_weight_proof calls of the handler: <<line, installed before, passed>>
    \* ---- new_peak_wallet, untrusted long sync: the sync-mode flag ----
    sync_mode,           \* wallet_state_manager.sync_mode
    sm_pc,               \* handler -> "new", "fetching", "long_sync", "ended"
    sm_syncing,          \* handler -> its local `syncing`
    sm_how,              \* handler -> how it ended
    sm_synced,            \* len(self.synced_peers) > 0
    \* ---- new_peak_wallet, short-sync branch around the backtrack ----
    ss_pc,               \* "idle", "backtrack", "final", "ended"
    ss_locks,            \* locks the handler holds: "low", "wsm"
    ss_log,               \* what the handler did after the backtrack
    \* ---- validate_block_inclusion: the loop over reversed_blocks ----
    vbi_pc,              \* "idle", "loop", "returned"
    vbi_len,             \* len(reversed_blocks)
    vbi_idx,             \* `idx` of the loop
    vbi_verified,        \* positions in the range (1 = lowest height) whose signature was verified
    vbi_result           \* the value returned

semVars == <<active_limit, waiting_limit, _available_count, _semaphore,
             _active_tasks, frames, last_event>>

lockVars == <<held, holder, queues, in_queue, max_queue>>
clientVars == <<arrived, grants, last_arrival>>

raceVars == <<race_cache, race_cache_hashes, race_inserted, race_last>>

recvVars == <<recv_pc, recv_args, task_pc, validation_semaphore, sem_waiters,
              new_state_lock, lock_waiters, validated, wallet_log>>

nodeVars == <<subscription_queue, subs_added, sub_pc, sub_peer, upd_pc, upd_key, peak_pc,
              peak_msg, _node_peaks, wsm_lock, finished_sync_up_to, peak_weight,
              synced_peers, before, item_excludes, lost_excludes>>

valVars == <<val_pc, val_args, val_log, val_result, val_closed, val_additions, val_block,
             states_validated, cache_blocks, val_calls>>

wpVars == <<wp_pc, wp_peak, wp_proof, valid_wp_cache, wp_prev, wp_last>>

btVars == <<bt_pc, bt_chain, bt_top, bt_blocks, bt_fork_height, bt_rollback, bt_caches, bt_received, bt_result>>

lsVars == <<ls_pc, continue_while, all_puzzle_hashes, already_checked_ph, all_coin_ids, already_checked_coin_ids, puzzle_store, coin_store, ph_sent, coin_sent>>

rpVars == <<replayed>>

trVars == <<cleared_at>>

admVars == <<adm_pc, adm_items, adm_created, adm_started, adm_waiting, adm_active>>

nwpVars == <<nwp_pc, validated_proof, old_proof, synced_weight_proof, nwp_calls>>

smVars == <<sync_mode, sm_pc, sm_syncing, sm_how, sm_synced>>

ssVars == <<ss_pc, ss_locks, ss_log>>

vbiVars == <<vbi_pc, vbi_len, vbi_idx, vbi_verified, vbi_result>>

\* the parts that run on their own, outside the handlers above
extVars == <<valVars, wpVars, btVars, lsVars, rpVars, trVars, admVars, nwpVars, smVars, ssVars, vbiVars>>

vars == <<semVars, lockVars, clientVars, raceVars, recvVars, nodeVars, extVars>>

(***************************************************************************)
(* LimitedSemaphore                                                        *)
(***************************************************************************)
SemTasks == 1 .. NumSemTasks

\* A frame is one acquire() call that passed the admission test: it is
\* "waiting" inside `async with self._semaphore` or "active" in the body.
WaitingFrames == {<<t, i>> \in SemTasks \X (1 .. MaxDepth) :
                    i <= Len(frames[t]) /\ frames[t][i] = "waiting"}
ActiveFrames == {<<t, i>> \in SemTasks \X (1 .. MaxDepth) :
                    i <= Len(frames[t]) /\ frames[t][i] = "active"}
NumWaiting == Cardinality(WaitingFrames)
NumActive == Cardinality(ActiveFrames)

Top(t) == frames[t][Len(frames[t])]
Push(t, f) == [frames EXCEPT ![t] = Append(@, f)]
Pop(t) == [frames EXCEPT ![t] = SubSeq(@, 1, Len(@) - 1)]
SetTop(t, f) == [frames EXCEPT ![t][Len(frames[t])] = f]

\* A task can start an acquire() when it runs: it has no call in progress,
\* or its innermost call is in the body (re-entry).
CanCall(t) ==
    /\ Len(frames[t]) < MaxDepth
    /\ (frames[t] # <<>> => Top(t) = "active")

\* create(): the semaphore holds active_limit permits and the admission
\* budget is active_limit + waiting_limit.
create(al, wl) ==
    /\ active_limit = al
    /\ waiting_limit = wl
    /\ _semaphore = al
    /\ _available_count = al + wl
    /\ _active_tasks = {}
    /\ frames = [t \in SemTasks |-> <<>>]
    /\ last_event = "none"

\* Mutant of IsFull: the admission test is off by one.
IsFull_OffByOne == _available_count < 0

\* The admission test of acquire(): `if self._available_count < 1: raise`.
IsFull == _available_count < 1

\* What the `finally` of acquire() does to the counter.
ReturnReservation == _available_count + 1

\* acquire() refused: LimitedSemaphoreFullError, nothing else changes.
acquire_full(t) ==
    /\ CanCall(t)
    /\ IsFull
    /\ last_event' = "full"
    /\ UNCHANGED <<active_limit, waiting_limit, _available_count, _semaphore,
                   _active_tasks, frames>>

\* acquire() admitted with a free permit: the reservation is taken, the
\* permit is taken without suspending, the task is registered and the body
\* is entered.
acquire_enter(t) ==
    /\ CanCall(t)
    /\ ~IsFull
    /\ _semaphore > 0
    /\ _available_count' = _available_count - 1
    /\ _semaphore' = _semaphore - 1
    /\ _active_tasks' = _active_tasks \cup {t}
    /\ frames' = Push(t, "active")
    /\ last_event' = "admitted"
    /\ UNCHANGED <<active_limit, waiting_limit>>

\* acquire() admitted without a free permit: the reservation is taken and
\* the task suspends inside `async with self._semaphore`.
acquire_wait(t) ==
    /\ CanCall(t)
    /\ ~IsFull
    /\ _semaphore = 0
    /\ _available_count' = _available_count - 1
    /\ frames' = Push(t, "waiting")
    /\ last_event' = "admitted"
    /\ UNCHANGED <<active_limit, waiting_limit, _semaphore, _active_tasks>>

\* A suspended entrant obtains a permit, registers and enters the body.
acquire_granted(t) ==
    /\ frames[t] # <<>>
    /\ Top(t) = "waiting"
    /\ _semaphore > 0
    /\ _semaphore' = _semaphore - 1
    /\ _active_tasks' = _active_tasks \cup {t}
    /\ frames' = SetTop(t, "active")
    /\ UNCHANGED <<active_limit, waiting_limit, _available_count, last_event>>

\* Mutation of leave: the permit is released after the body only, not by
\* an `async with`, so a body that raises or is cancelled keeps it.
leave_KeepsPermit(t, how) ==
    /\ frames[t] # <<>>
    /\ Top(t) = "active"
    /\ _semaphore' = IF how = "returned" THEN _semaphore + 1 ELSE _semaphore
    /\ _available_count' = ReturnReservation
    /\ _active_tasks' = _active_tasks \ {t}
    /\ frames' = Pop(t)
    /\ last_event' = how
    /\ UNCHANGED <<active_limit, waiting_limit>>

\* The body ends (return, exception or cancellation inside the body): the
\* permit is released by the `async with`, then the `finally` runs.
leave(t, how) ==
    /\ frames[t] # <<>>
    /\ Top(t) = "active"
    /\ _semaphore' = _semaphore + 1
    /\ _available_count' = ReturnReservation
    /\ _active_tasks' = _active_tasks \ {t}
    /\ frames' = Pop(t)
    /\ last_event' = how
    /\ UNCHANGED <<active_limit, waiting_limit>>

\* Mutant of cancel_waiting: the reservation is returned after the body
\* only, not in a `finally`, so a cancelled waiter keeps it.
cancel_waiting_NoFinally(t) ==
    /\ frames[t] # <<>>
    /\ Top(t) = "waiting"
    /\ frames' = Pop(t)
    /\ last_event' = "cancelled"
    /\ UNCHANGED <<active_limit, waiting_limit, _available_count, _semaphore,
                   _active_tasks>>

\* The task is cancelled while suspended on the semaphore: no permit was
\* taken, the body is skipped and only the `finally` runs.
cancel_waiting(t) ==
    /\ frames[t] # <<>>
    /\ Top(t) = "waiting"
    /\ _available_count' = ReturnReservation
    /\ _active_tasks' = _active_tasks \ {t}
    /\ frames' = Pop(t)
    /\ last_event' = "cancelled"
    /\ UNCHANGED <<active_limit, waiting_limit, _semaphore>>

SemInit ==
    \E al \in 1 .. MaxActiveLimit, wl \in 0 .. MaxWaitingLimit : create(al, wl)

\* The semaphore while another part of the node is modelled.
SemIdle == create(MaxActiveLimit, MaxWaitingLimit)

(***************************************************************************)
(* Priority lock: LockQueue with the three LockClients of WalletNode.      *)
(* Single-owner critical section, three waiter classes, strict priority,   *)
(* FIFO within a class, bounded queue.                                     *)
(***************************************************************************)
\* LockClient(0, ...), LockClient(1, ...), LockClient(2, ...)
_new_peak_lock_ultra_priority == 0
_new_peak_lock_low_priority == 2

\* Mutant of _new_peak_lock_high_priority: created with the priority of
\* the new-peak client.
HighPriority_AsLow == _new_peak_lock_low_priority

_new_peak_lock_high_priority == 1

LONG_SYNC_THRESHOLD == 200

Classes == 0 .. 2

LockQueue(maxsize) ==
    /\ held = FALSE
    /\ holder = NoHolder
    /\ queues = [c \in Classes |-> <<>>]
    /\ in_queue = 0
    /\ max_queue = maxsize

\* acquire fails with QueueFull when the outstanding waiters equal max_queue
QueueFull == in_queue = max_queue

\* The class served next: the lowest-numbered class with a waiter.
NextClass ==
    CHOOSE c \in Classes : queues[c] # <<>> /\ \A d \in Classes : d < c => queues[d] = <<>>

Remove(q, w) == SelectSeq(q, LAMBDA x : x # w)

\* acquire(class) by waiter w, admitted: w takes the free section at once
\* or joins the tail of its class.
PLAcquire(w, c) ==
    /\ ~QueueFull
    /\ IF held
         THEN /\ queues' = [queues EXCEPT ![c] = Append(@, w)]
              /\ in_queue' = in_queue + 1
              /\ UNCHANGED <<held, holder>>
         ELSE /\ held' = TRUE
              /\ holder' = w
              /\ UNCHANGED <<queues, in_queue>>
    /\ UNCHANGED max_queue

\* Mutant of PLRelease: the section is freed and no waiter is woken.
PLRelease_WakesNobody ==
    /\ held
    /\ held' = FALSE
    /\ holder' = NoHolder
    /\ UNCHANGED <<queues, in_queue, max_queue>>

\* Release by the holder: scan classes 0, 1, 2; the head of the first
\* non-empty queue becomes the next holder.
PLRelease ==
    /\ held
    /\ IF in_queue = 0
         THEN /\ held' = FALSE
              /\ holder' = NoHolder
              /\ UNCHANGED <<queues, in_queue>>
         ELSE /\ holder' = Head(queues[NextClass])
              /\ queues' = [queues EXCEPT ![NextClass] = Tail(@)]
              /\ in_queue' = in_queue - 1
              /\ UNCHANGED held
    /\ UNCHANGED max_queue

\* A waiter cancelled before it acquires leaves its queue and the depth
\* counter is decremented with it.
PLCancel(w, c) ==
    /\ \E i \in 1 .. Len(queues[c]) : queues[c][i] = w
    /\ queues' = [queues EXCEPT ![c] = Remove(@, w)]
    /\ in_queue' = in_queue - 1
    /\ UNCHANGED <<held, holder, max_queue>>

(***************************************************************************)
(* Lock-level model: anonymous clients of the three LockClients arrive,    *)
(* wait, hold and release.  A client is <<kind, k>>: the k-th client of    *)
(* its kind that had to queue (k = 0: it found the section free).          *)
(***************************************************************************)
Kinds == {"ultra", "high", "low"}

ClientPriority(kind) ==
    CASE kind = "ultra" -> _new_peak_lock_ultra_priority
      [] kind = "high" -> _new_peak_lock_high_priority
      [] kind = "low" -> _new_peak_lock_low_priority

ClientInit ==
    /\ arrived = [k \in Kinds |-> 0]
    /\ grants = <<>>
    /\ last_arrival = "none"

\* `async with client` entered while the section is free: the client holds
\* at once.
ClientEnter(kind) ==
    /\ ~held
    /\ PLAcquire(<<kind, 0>>, ClientPriority(kind))
    /\ grants' = <<>>
    /\ last_arrival' = "entered"
    /\ UNCHANGED arrived

\* `async with client` entered while the section is occupied: the client
\* queues as the next arrival of its kind.
ClientArrive(kind) ==
    /\ held
    /\ arrived[kind] < MaxPerKind
    /\ PLAcquire(<<kind, arrived[kind] + 1>>, ClientPriority(kind))
    /\ arrived' = [arrived EXCEPT ![kind] = @ + 1]
    /\ grants' = <<>>
    /\ last_arrival' = "queued"

\* `async with client` refused: too many waiters.
ClientRejected(kind) ==
    /\ QueueFull
    /\ last_arrival' = "rejected"
    /\ UNCHANGED <<lockVars, arrived, grants>>

\* The holder leaves its `async with` block.
ClientRelease ==
    /\ PLRelease
    /\ grants' = IF in_queue = 0 THEN grants ELSE Append(grants, holder')
    /\ UNCHANGED <<arrived, last_arrival>>

\* A queued client is cancelled.
ClientCancel(kind) ==
    /\ \E k \in 1 .. MaxPerKind : PLCancel(<<kind, k>>, ClientPriority(kind))
    /\ UNCHANGED <<arrived, grants, last_arrival>>

LockIdle == LockQueue(MaxQueue) /\ ClientInit

(***************************************************************************)
(* Race cache                                                              *)
(***************************************************************************)
CoinStates == 1 .. NumCoinStates

\* Heights at which states are race-cached; the block at a height is named
\* by the height.
RaceHeights == {10, 100, 150, 260}

delete_threshold == 100

RaceInit ==
    /\ race_cache = <<>>
    /\ race_cache_hashes = <<>>
    /\ race_inserted = {}
    /\ race_last = None

Restrict(f, keys) == [k \in keys |-> f[k]]

\* The hashes listed in race_cache_hashes that are delete_threshold or more
\* below height.
StaleHashes(height) ==
    {race_cache_hashes[i][2] : i \in {j \in 1 .. Len(race_cache_hashes) :
                                        height - delete_threshold >= race_cache_hashes[j][1]}}

\* add_state_to_race_cache: pop the listed stale hashes, filter the list,
\* then add the coin state to the set of its header hash.
add_state_to_race_cache(header_hash, height, coin_state) ==
    LET kept == Restrict(race_cache, DOMAIN race_cache \ StaleHashes(height))
        old == IF header_hash \in DOMAIN kept THEN kept[header_hash] ELSE {}
    IN /\ race_cache_hashes' =
              SelectSeq(race_cache_hashes, LAMBDA rc : height - delete_threshold < rc[1])
       /\ race_cache' = [k \in DOMAIN kept \cup {header_hash} |->
                            IF k = header_hash THEN old \cup {coin_state} ELSE kept[k]]
       /\ race_inserted' = race_inserted \cup {<<header_hash, height, coin_state>>}
       /\ race_last' = <<header_hash, height>>

(***************************************************************************)
(* receive_state_from_peer: one call at a time (its callers hold the       *)
(* priority lock).  The items of a call are the coin states 1 .. n; item i *)
(* is handled by the task receive_and_validate(i).                         *)
(***************************************************************************)
Items == 1 .. NumCoinStates

\* Arguments passed by the callers: no arguments beyond the items (long
\* sync, subscriptions, race-cache replay), height and header hash (short
\* sync), or all three (state update); the header hash names the block at
\* height.
RecvHeights == {NoneInt, 10}
RecvForkHeights == {NoneInt, 5, 9}
RecvArgs ==
    {a \in [trusted : BOOLEAN, fork_height : RecvForkHeights, height : RecvHeights,
            header_hash : RecvHeights, n : 0 .. NumCoinStates] :
        a.header_hash # NoneInt => a.header_hash = a.height}

NoArgs == [trusted |-> FALSE, fork_height |-> NoneInt, height |-> NoneInt,
           header_hash |-> NoneInt, n |-> 0]

RecvInit ==
    /\ recv_pc = "idle"
    /\ recv_args = NoArgs
    /\ task_pc = [i \in Items |-> "none"]
    /\ validation_semaphore = NoneInt
    /\ sem_waiters = <<>>
    /\ new_state_lock = NoneInt
    /\ lock_waiters = <<>>
    /\ validated = [i \in Items |-> "none"]
    /\ wallet_log = <<>>

\* Mutation of RollbackNeeded: the comparison with height - 1 is lost.
RollbackNeeded_AnyFork(trusted, fork_height, height) ==
    trusted /\ fork_height # NoneInt /\ height # NoneInt

\* the condition guarding reorg_rollback
RollbackNeeded(trusted, fork_height, height) ==
    trusted /\ fork_height # NoneInt /\ height # NoneInt /\ fork_height # height - 1

\* Mutation of ShouldApply: the state is applied whatever the validator said.
ShouldApply_Always(valid) == TRUE

\* `if valid:` in receive_and_validate
ShouldApply(valid) == valid

\* The call up to its first suspension: the semaphore and the lock are
\* created on first use, the rollback is requested if needed, and the task
\* list is built (nothing waits on the semaphore yet, so the loop over
\* _waiters never sleeps).
receive_state_from_peer(a) ==
    /\ recv_pc \in {"idle", "returned", "raised"}
    /\ recv_args' = a
    /\ validation_semaphore' =
          IF validation_semaphore = NoneInt THEN ValidationPermits ELSE validation_semaphore
    /\ new_state_lock' = IF new_state_lock = NoneInt THEN 0 ELSE new_state_lock
    /\ task_pc' = [i \in Items |-> IF i <= a.n THEN "created" ELSE "none"]
    /\ validated' = [i \in Items |-> "none"]
    /\ IF RollbackNeeded(a.trusted, a.fork_height, a.height)
         THEN /\ wallet_log' = << <<"reorg_rollback", a.fork_height>> >>
              /\ recv_pc' = "rollback"
         ELSE /\ wallet_log' = <<>>
              /\ recv_pc' = "gather"
    /\ UNCHANGED <<sem_waiters, lock_waiters, raceVars>>

\* reorg_rollback returns, or raises and ends the call.
reorg_rollback_ends(how) ==
    /\ recv_pc = "rollback"
    /\ recv_pc' = IF how = "returned" THEN "gather" ELSE "raised"
    /\ UNCHANGED <<recv_args, task_pc, validation_semaphore, sem_waiters, new_state_lock,
                   lock_waiters, validated, wallet_log, raceVars>>

\* Mutation of EnterNewStateLock: new_coin_state is called without waiting
\* for new_state_lock.
EnterNewStateLock_NoLock(i, tp) ==
    /\ new_state_lock' = i
    /\ task_pc' = [tp EXCEPT ![i] = "applying"]
    /\ wallet_log' = Append(wallet_log, <<"new_coin_state", i>>)
    /\ UNCHANGED lock_waiters

\* `async with self.new_state_lock` followed by the call of new_coin_state;
\* tp is task_pc as left by the caller.
EnterNewStateLock(i, tp) ==
    IF new_state_lock = 0
      THEN /\ new_state_lock' = i
           /\ task_pc' = [tp EXCEPT ![i] = "applying"]
           /\ wallet_log' = Append(wallet_log, <<"new_coin_state", i>>)
           /\ UNCHANGED lock_waiters
      ELSE /\ lock_waiters' = Append(lock_waiters, i)
           /\ task_pc' = [tp EXCEPT ![i] = "lock_wait"]
           /\ UNCHANGED <<new_state_lock, wallet_log>>

\* Leaving `async with self.validation_semaphore`: the permit goes to the
\* first waiter if there is one; pc is where task i ends.
LeaveSemaphore(i, tp, pc) ==
    IF sem_waiters = <<>>
      THEN /\ validation_semaphore' = validation_semaphore + 1
           /\ task_pc' = [tp EXCEPT ![i] = pc]
           /\ UNCHANGED sem_waiters
      ELSE /\ sem_waiters' = Tail(sem_waiters)
           /\ task_pc' = [tp EXCEPT ![i] = pc, ![Head(sem_waiters)] = "admitted"]
           /\ UNCHANGED validation_semaphore

\* The body of receive_and_validate from the semaphore to its first
\* suspension: race-cache the state, then validate (untrusted) or apply.
Body(i) ==
    /\ IF recv_args.header_hash # NoneInt
         THEN add_state_to_race_cache(recv_args.header_hash, recv_args.height, i)
         ELSE UNCHANGED raceVars
    /\ IF recv_args.trusted
         THEN /\ ShouldApply(TRUE)
              /\ EnterNewStateLock(i, task_pc)
              /\ UNCHANGED validated
         ELSE /\ task_pc' = [task_pc EXCEPT ![i] = "validating"]
              /\ validated' = [validated EXCEPT ![i] = "called"]
              /\ UNCHANGED <<new_state_lock, lock_waiters, wallet_log>>

\* Mutation of receive_and_validate_start: the body is entered without a
\* permit of validation_semaphore.
receive_and_validate_start_NoSemaphore(i) ==
    /\ recv_pc = "gather"
    /\ task_pc[i] = "created"
    /\ \A j \in Items : j < i => task_pc[j] # "created"
    /\ Body(i)
    /\ UNCHANGED <<validation_semaphore, sem_waiters, recv_pc, recv_args>>

\* gather starts the tasks in list order; a task takes a permit or waits.
receive_and_validate_start(i) ==
    /\ recv_pc = "gather"
    /\ task_pc[i] = "created"
    /\ \A j \in Items : j < i => task_pc[j] # "created"
    /\ IF validation_semaphore > 0
         THEN /\ validation_semaphore' = validation_semaphore - 1
              /\ Body(i)
              /\ UNCHANGED sem_waiters
         ELSE /\ sem_waiters' = Append(sem_waiters, i)
              /\ task_pc' = [task_pc EXCEPT ![i] = "sem_wait"]
              /\ UNCHANGED <<validation_semaphore, new_state_lock, lock_waiters, validated,
                             wallet_log, raceVars>>
    /\ UNCHANGED <<recv_pc, recv_args>>

\* a waiter that was handed a permit resumes
receive_and_validate_admitted(i) ==
    /\ task_pc[i] = "admitted"
    /\ Body(i)
    /\ UNCHANGED <<recv_pc, recv_args, validation_semaphore, sem_waiters>>

\* validate_received_state_from_peer returns valid
validate_received_state_from_peer_returns(i, valid) ==
    /\ task_pc[i] = "validating"
    /\ validated' = [validated EXCEPT ![i] = IF valid THEN "true" ELSE "false"]
    /\ IF ShouldApply(valid)
         THEN /\ EnterNewStateLock(i, task_pc)
              /\ UNCHANGED <<validation_semaphore, sem_waiters>>
         ELSE /\ LeaveSemaphore(i, task_pc, "done")
              /\ UNCHANGED <<new_state_lock, lock_waiters, wallet_log>>
    /\ UNCHANGED <<recv_pc, recv_args, raceVars>>

\* validate_received_state_from_peer raises; `except Exception` logs it
validate_received_state_from_peer_raises(i) ==
    /\ task_pc[i] = "validating"
    /\ validated' = [validated EXCEPT ![i] = "raised"]
    /\ LeaveSemaphore(i, task_pc, "logged")
    /\ UNCHANGED <<recv_pc, recv_args, new_state_lock, lock_waiters, wallet_log, raceVars>>

\* a waiter that was handed new_state_lock resumes and calls new_coin_state
new_state_lock_granted(i) ==
    /\ task_pc[i] = "lock_granted"
    /\ task_pc' = [task_pc EXCEPT ![i] = "applying"]
    /\ wallet_log' = Append(wallet_log, <<"new_coin_state", i>>)
    /\ UNCHANGED <<recv_pc, recv_args, validation_semaphore, sem_waiters, new_state_lock,
                   lock_waiters, validated, raceVars>>

\* new_coin_state returns or raises (logged by `except Exception`); the
\* lock goes to its first waiter, then the permit is given back.
new_coin_state_ends(i, how) ==
    /\ task_pc[i] = "applying"
    /\ LET pc == IF how = "returned" THEN "done" ELSE "logged"
       IN IF lock_waiters = <<>>
            THEN /\ new_state_lock' = 0
                 /\ UNCHANGED lock_waiters
                 /\ LeaveSemaphore(i, task_pc, pc)
            ELSE /\ new_state_lock' = Head(lock_waiters)
                 /\ lock_waiters' = Tail(lock_waiters)
                 /\ LeaveSemaphore(i, [task_pc EXCEPT ![Head(lock_waiters)] = "lock_granted"], pc)
    /\ UNCHANGED <<recv_pc, recv_args, validated, wallet_log, raceVars>>

\* gather has every result; update_ui; the call returns
receive_state_from_peer_returns ==
    /\ recv_pc = "gather"
    /\ \A i \in Items : task_pc[i] \in {"none", "done", "logged"}
    /\ recv_pc' = "returned"
    /\ UNCHANGED <<recv_args, task_pc, validation_semaphore, sem_waiters, new_state_lock,
                   lock_waiters, validated, wallet_log, raceVars>>

RecvIdle == RecvInit

RaceIdle == RaceInit

(***************************************************************************)
(* The three peer-event handlers of WalletNode under the priority lock:    *)
(* the subscription loop (ultra), state_update_received (high) and         *)
(* new_peak_wallet (low).  receive_state_from_peer is one step here.       *)
(***************************************************************************)
PeerList == <<"trusted_peer", "untrusted_peer">>
Peers == {PeerList[k] : k \in 1 .. Len(PeerList)}
is_trusted(peer) == peer = "trusted_peer"

Updates == 1 .. NumUpdates
PeakIds == 1 .. NumPeaks
Heights == 1 .. MaxHeight

\* task identities, as waiters and holders of the locks
SubTask == <<"sub", 0>>
UpdTask(u) == <<"update", u>>
PeakTask(p) == <<"peak", p>>

NoKey == <<"", 0>>
NoPeak == [peer |-> "", height |-> 0, weight |-> 0]
PeakMsgs == [peer : Peers, height : Heights, weight : Heights]
\* the peaks of peers that follow one chain: the weight grows with the height
ChainPeakMsgs == {msg \in PeakMsgs : msg.weight = msg.height}

\* positions of a new-peak handler before and inside the critical section
PeakNotEntered == {"new", "pre_check", "lock_wait"}
PeakInSection == {"cs_check", "probe", "ls_check", "ls_set", "fin_get", "fin_set", "new_peak"}

NodeInit ==
    /\ subscription_queue = 0
    /\ subs_added = 0
    /\ sub_pc = "idle"
    /\ sub_peer = 0
    /\ upd_pc = [u \in Updates |-> "new"]
    /\ upd_key = [u \in Updates |-> NoKey]
    /\ peak_pc = [p \in PeakIds |-> "new"]
    /\ peak_msg = [p \in PeakIds |-> NoPeak]
    /\ _node_peaks = [peer \in Peers |-> 0]
    /\ wsm_lock = None
    /\ finished_sync_up_to = 0
    /\ peak_weight = 0
    /\ synced_peers = {}
    /\ before = [p \in PeakIds |-> {}]
    /\ item_excludes = {}
    /\ lost_excludes = {}

subVars == <<subscription_queue, subs_added, sub_pc, sub_peer, item_excludes, lost_excludes>>
updVars == <<upd_pc, upd_key>>
peakVars == <<peak_pc, peak_msg, _node_peaks, before>>
walletVars == <<finished_sync_up_to, peak_weight, synced_peers>>

\* ---- subscription loop ----

\* something puts an item on subscription_queue
subscription_put ==
    /\ subs_added < MaxSubs
    /\ subs_added' = subs_added + 1
    /\ subscription_queue' = subscription_queue + 1
    /\ UNCHANGED <<sub_pc, sub_peer, item_excludes, lost_excludes, updVars, peakVars, wsm_lock,
                   walletVars, lockVars>>

\* `except Exception` of the loop: the item in progress is abandoned and
\* the loop goes back to subscription_queue.get()
SubAbandon(excluded) ==
    /\ sub_pc' = "idle"
    /\ sub_peer' = 0
    /\ lost_excludes' = lost_excludes \cup excluded
    /\ item_excludes' = {}

\* the loop takes an item and enters `async with ultra`
_process_new_subscriptions_take ==
    /\ sub_pc = "idle"
    /\ subscription_queue > 0
    /\ subscription_queue' = subscription_queue - 1
    /\ LET excluded == {p \in PeakIds : peak_pc[p] \in PeakNotEntered}
       IN IF QueueFull
            THEN /\ SubAbandon(excluded)
                 /\ UNCHANGED lockVars
            ELSE /\ PLAcquire(SubTask, _new_peak_lock_ultra_priority)
                 /\ item_excludes' = excluded
                 /\ sub_pc' = IF held THEN "lock_wait" ELSE "subscribing"
                 /\ sub_peer' = IF held THEN 0 ELSE 1
                 /\ UNCHANGED lost_excludes
    /\ UNCHANGED <<subs_added, updVars, peakVars, wsm_lock, walletVars>>

\* the lock was handed to the loop
_process_new_subscriptions_granted ==
    /\ sub_pc = "lock_wait"
    /\ holder = SubTask
    /\ sub_pc' = "subscribing"
    /\ sub_peer' = 1
    /\ UNCHANGED <<subscription_queue, subs_added, item_excludes, lost_excludes, updVars,
                   peakVars, wsm_lock, walletVars, lockVars>>

\* the loop over the peers moves on; after the last peer the lock is released
SubNextPeer ==
    IF sub_peer < Len(PeerList)
      THEN /\ sub_peer' = sub_peer + 1
           /\ sub_pc' = "subscribing"
           /\ UNCHANGED <<item_excludes, lost_excludes, lockVars>>
      ELSE /\ PLRelease
           /\ sub_pc' = "idle"
           /\ sub_peer' = 0
           /\ item_excludes' = {}
           /\ UNCHANGED lost_excludes

\* subscribe_to_phs / subscribe_to_coin_updates returns coin states
subscribe_returns(nonempty) ==
    /\ sub_pc = "subscribing"
    /\ IF nonempty
         THEN /\ wsm_lock = None
              /\ wsm_lock' = SubTask
              /\ sub_pc' = "ingesting"
              /\ UNCHANGED <<sub_peer, item_excludes, lost_excludes, lockVars>>
         ELSE /\ SubNextPeer
              /\ UNCHANGED wsm_lock
    /\ UNCHANGED <<subscription_queue, subs_added, updVars, peakVars, walletVars>>

\* the request to the peer raises
subscribe_raises ==
    /\ sub_pc = "subscribing"
    /\ PLRelease
    /\ SubAbandon(item_excludes)
    /\ UNCHANGED <<subscription_queue, subs_added, updVars, peakVars, wsm_lock, walletVars>>

\* receive_state_from_peer(coin_states, peer) ends under the wallet lock
subscribe_ingest_ends(how) ==
    /\ sub_pc = "ingesting"
    /\ wsm_lock' = None
    /\ IF how = "returned"
         THEN SubNextPeer
         ELSE PLRelease /\ SubAbandon(item_excludes)
    /\ UNCHANGED <<subscription_queue, subs_added, updVars, peakVars, walletVars>>

\* ---- state_update_received ----

\* a CoinStateUpdate of peer for height is delivered: `async with high`
state_update_received(u, peer, height) ==
    /\ upd_pc[u] = "new"
    /\ \A v \in Updates : v < u => upd_pc[v] # "new"
    /\ upd_key' = [upd_key EXCEPT ![u] = <<peer, height>>]
    /\ IF QueueFull
         THEN /\ upd_pc' = [upd_pc EXCEPT ![u] = "refused"]
              /\ UNCHANGED <<lockVars, wsm_lock>>
         ELSE /\ PLAcquire(UpdTask(u), _new_peak_lock_high_priority)
              /\ IF held
                   THEN /\ upd_pc' = [upd_pc EXCEPT ![u] = "lock_wait"]
                        /\ UNCHANGED wsm_lock
                   ELSE /\ wsm_lock = None
                        /\ wsm_lock' = UpdTask(u)
                        /\ upd_pc' = [upd_pc EXCEPT ![u] = "receiving"]
    /\ UNCHANGED <<subVars, peakVars, walletVars>>

\* the lock was handed to the handler: wallet lock, receive_state_from_peer
state_update_received_granted(u) ==
    /\ upd_pc[u] = "lock_wait"
    /\ holder = UpdTask(u)
    /\ wsm_lock = None
    /\ wsm_lock' = UpdTask(u)
    /\ upd_pc' = [upd_pc EXCEPT ![u] = "receiving"]
    /\ UNCHANGED <<upd_key, subVars, peakVars, walletVars, lockVars>>

\* Mutant of state_update_received_ends: the handler leaves the priority lock
\* and keeps the wallet lock.
state_update_received_ends_KeepsWalletLock(u) ==
    /\ upd_pc[u] = "receiving"
    /\ PLRelease
    /\ upd_pc' = [upd_pc EXCEPT ![u] = "done"]
    /\ upd_key' = [upd_key EXCEPT ![u] = NoKey]
    /\ UNCHANGED <<subVars, peakVars, wsm_lock, walletVars>>

\* receive_state_from_peer returns or raises; both locks are released
state_update_received_ends(u) ==
    /\ upd_pc[u] = "receiving"
    /\ wsm_lock' = None
    /\ PLRelease
    /\ upd_pc' = [upd_pc EXCEPT ![u] = "done"]
    /\ upd_key' = [upd_key EXCEPT ![u] = NoKey]
    /\ UNCHANGED <<subVars, peakVars, walletVars>>

\* ---- new_peak_wallet ----

\* Mutant of Stale: a peak as heavy as the local peak is discarded too.
Stale_OrEqual(weight) == peak_weight # 0 /\ weight <= peak_weight

\* `peak_hb is not None and peak.weight < peak_hb.weight`
Stale(weight) == peak_weight # 0 /\ weight < peak_weight

\* the guard of set_finished_sync_up_to in long_sync
long_sync_advances(target_height, finished) == target_height > finished

\* Mutation of new_peak_advances: the comparison of heights is lost.
new_peak_advances_Unchecked(peer, height, finished) == peer \in synced_peers

\* the guard of set_finished_sync_up_to at the end of new_peak_wallet
new_peak_advances(peer, height, finished) == peer \in synced_peers /\ height > finished

\* the handler returns or raises: its locals are gone
PeakEnd(p) ==
    /\ peak_pc' = [peak_pc EXCEPT ![p] = "ended"]
    /\ peak_msg' = [peak_msg EXCEPT ![p] = NoPeak]
    /\ before' = [before EXCEPT ![p] = {}]

\* a NewPeakWallet is delivered: _node_peaks is set, get_peak_block awaited
new_peak_wallet(p, msg) ==
    /\ peak_pc[p] = "new"
    /\ \A q \in PeakIds : q < p => peak_pc[q] # "new"
    /\ _node_peaks' = [_node_peaks EXCEPT ![msg.peer] = msg.height]
    /\ peak_msg' = [peak_msg EXCEPT ![p] = msg]
    /\ peak_pc' = [peak_pc EXCEPT ![p] = "pre_check"]
    /\ before' = [before EXCEPT ![p] =
                     {u \in Updates : upd_pc[u] # "new" /\ upd_key[u] = <<msg.peer, msg.height>>}]
    /\ UNCHANGED <<subVars, updVars, wsm_lock, walletVars, lockVars>>

\* Mutation of new_peak_wallet_acquire: the body is entered without the lock.
new_peak_wallet_acquire_NoLock(p) ==
    /\ peak_pc[p] = "pre_check"
    /\ IF Stale(peak_msg[p].weight)
         THEN PeakEnd(p)
         ELSE /\ peak_pc' = [peak_pc EXCEPT ![p] = "cs_check"]
              /\ UNCHANGED <<peak_msg, before>>
    /\ UNCHANGED <<_node_peaks, subVars, updVars, wsm_lock, walletVars, lockVars>>

\* the check before the lock, then `async with low`
new_peak_wallet_acquire(p) ==
    /\ peak_pc[p] = "pre_check"
    /\ IF Stale(peak_msg[p].weight)
         THEN PeakEnd(p) /\ UNCHANGED lockVars
         ELSE IF QueueFull
                THEN PeakEnd(p) /\ UNCHANGED lockVars
                ELSE /\ PLAcquire(PeakTask(p), _new_peak_lock_low_priority)
                     /\ peak_pc' = [peak_pc EXCEPT ![p] = IF held THEN "lock_wait" ELSE "cs_check"]
                     /\ UNCHANGED <<peak_msg, before>>
    /\ UNCHANGED <<_node_peaks, subVars, updVars, wsm_lock, walletVars>>

\* the lock was handed to the handler; get_peak_block is awaited again
new_peak_wallet_granted(p) ==
    /\ peak_pc[p] = "lock_wait"
    /\ holder = PeakTask(p)
    /\ peak_pc' = [peak_pc EXCEPT ![p] = "cs_check"]
    /\ UNCHANGED <<peak_msg, _node_peaks, before, subVars, updVars, wsm_lock,
                   walletVars, lockVars>>

\* the check again under the lock
new_peak_wallet_recheck(p) ==
    /\ peak_pc[p] = "cs_check"
    /\ IF Stale(peak_msg[p].weight)
         THEN PLRelease /\ PeakEnd(p)
         ELSE /\ peak_pc' = [peak_pc EXCEPT ![p] = "probe"]
              /\ UNCHANGED <<peak_msg, before, lockVars>>
    /\ UNCHANGED <<_node_peaks, subVars, updVars, wsm_lock, walletVars>>

\* Mutant of new_peak_wallet_leaves: the early return keeps the priority lock.
new_peak_wallet_leaves_KeepsLock(p) ==
    /\ peak_pc[p] \in {"probe", "ls_check"}
    /\ wsm_lock' = None
    /\ PeakEnd(p)
    /\ UNCHANGED <<_node_peaks, subVars, updVars, walletVars, lockVars>>

\* an early return (peer not synced, no header, invalid weight proof) or an
\* exception of the sync: the locks held are released
new_peak_wallet_leaves(p) ==
    /\ peak_pc[p] \in {"probe", "ls_check"}
    /\ wsm_lock' = None
    /\ PLRelease
    /\ PeakEnd(p)
    /\ UNCHANGED <<_node_peaks, subVars, updVars, walletVars>>

\* the branch taken after the header of the peak was fetched.  far_behind
\* and recent (peak.height >= WEIGHT_PROOF_RECENT_BLOCKS) depend on the
\* chain; wp_sets_peak is whether new_weight_proof moved the wallet peak.
new_peak_wallet_sync(p, far_behind, recent, wp_sets_peak) ==
    /\ peak_pc[p] = "probe"
    /\ wsm_lock = None
    /\ LET m == peak_msg[p]
           long == (m.peer \notin synced_peers \/ far_behind) /\ recent
           syncing == far_behind \/ synced_peers = {}
       IN IF is_trusted(m.peer)
            THEN /\ peak_weight' = m.weight
                 /\ IF m.peer \notin synced_peers
                      THEN /\ wsm_lock' = PeakTask(p)
                           /\ peak_pc' = [peak_pc EXCEPT ![p] = "ls_check"]
                      ELSE /\ UNCHANGED wsm_lock
                           /\ peak_pc' = [peak_pc EXCEPT ![p] = "fin_get"]
                 /\ UNCHANGED <<synced_peers, peak_msg, before, lockVars>>
            ELSE IF long
                   THEN /\ peak_weight' = IF wp_sets_peak THEN m.weight ELSE peak_weight
                        /\ wsm_lock' = IF syncing THEN PeakTask(p) ELSE wsm_lock
                        /\ peak_pc' = [peak_pc EXCEPT ![p] = "ls_check"]
                        /\ UNCHANGED <<synced_peers, peak_msg, before, lockVars>>
                   ELSE IF m.peer \notin synced_peers /\ _node_peaks[m.peer] = 0
                          THEN \* line 889: `self._node_peaks[peer.peer_node_id]`
                               \* raises KeyError after the backtrack; the
                               \* handler ends
                               /\ peak_weight' = m.weight
                               /\ PLRelease
                               /\ PeakEnd(p)
                               /\ UNCHANGED <<synced_peers, wsm_lock>>
                          ELSE /\ peak_weight' = m.weight
                               /\ synced_peers' = synced_peers \cup {m.peer}
                               /\ peak_pc' = [peak_pc EXCEPT ![p] = "fin_get"]
                               /\ UNCHANGED <<wsm_lock, peak_msg, before, lockVars>>
    /\ UNCHANGED <<_node_peaks, finished_sync_up_to, subVars, updVars>>

\* the end of long_sync after its subscriptions: the peer is synced
LongSyncTail(p) ==
    /\ synced_peers' = synced_peers \cup {peak_msg[p].peer}
    /\ wsm_lock' = None
    /\ peak_pc' = [peak_pc EXCEPT ![p] = "fin_get"]

\* long_sync reads finished_sync_up_to and compares it with target_height
long_sync_check(p) ==
    /\ peak_pc[p] = "ls_check"
    /\ IF long_sync_advances(peak_msg[p].height, finished_sync_up_to)
         THEN /\ peak_pc' = [peak_pc EXCEPT ![p] = "ls_set"]
              /\ UNCHANGED <<synced_peers, wsm_lock>>
         ELSE LongSyncTail(p)
    /\ UNCHANGED <<peak_msg, _node_peaks, before, finished_sync_up_to, peak_weight,
                   subVars, updVars, lockVars>>

\* long_sync: set_finished_sync_up_to(target_height)
long_sync_set(p) ==
    /\ peak_pc[p] = "ls_set"
    /\ finished_sync_up_to' = peak_msg[p].height
    /\ LongSyncTail(p)
    /\ UNCHANGED <<peak_msg, _node_peaks, before, peak_weight, subVars, updVars, lockVars>>

\* new_peak_wallet reads finished_sync_up_to and compares it with peak.height
new_peak_wallet_final_check(p) ==
    /\ peak_pc[p] = "fin_get"
    /\ peak_pc' = [peak_pc EXCEPT ![p] =
                      IF new_peak_advances(peak_msg[p].peer, peak_msg[p].height,
                                           finished_sync_up_to)
                        THEN "fin_set" ELSE "new_peak"]
    /\ UNCHANGED <<peak_msg, _node_peaks, before, subVars, updVars, wsm_lock,
                   walletVars, lockVars>>

\* new_peak_wallet: set_finished_sync_up_to(peak.height)
new_peak_wallet_set_finished(p) ==
    /\ peak_pc[p] = "fin_set"
    /\ finished_sync_up_to' = peak_msg[p].height
    /\ peak_pc' = [peak_pc EXCEPT ![p] = "new_peak"]
    /\ UNCHANGED <<peak_msg, _node_peaks, before, peak_weight, synced_peers, subVars, updVars,
                   wsm_lock, lockVars>>

\* wallet_state_manager.new_peak(peak); the handler ends and releases
new_peak_wallet_new_peak(p) ==
    /\ peak_pc[p] = "new_peak"
    /\ PLRelease
    /\ PeakEnd(p)
    /\ UNCHANGED <<_node_peaks, subVars, updVars, wsm_lock, walletVars>>

\* on_disconnect (lines 417-426): the peer is dropped from synced_peers and
\* _node_peaks; a callback without awaits, it takes no lock
on_disconnect(peer) ==
    /\ synced_peers' = synced_peers \ {peer}
    /\ _node_peaks' = [_node_peaks EXCEPT ![peer] = 0]
    /\ UNCHANGED <<peak_pc, peak_msg, before, subVars, updVars, wsm_lock,
                   finished_sync_up_to, peak_weight, lockVars>>

\* on_connect (lines 428-441), up to its first await after the removal
on_connect(peer) ==
    /\ synced_peers' = synced_peers \ {peer}
    /\ UNCHANGED <<peakVars, subVars, updVars, wsm_lock,
                   finished_sync_up_to, peak_weight, lockVars>>

\* ---- cancellation of the handlers (tasks are cancelled on close) ----

\* `async with` left by CancelledError: a waiter still queued leaves its
\* queue; a holder (also one handed the lock and not yet resumed) releases
LockExit(task, class) ==
    IF holder = task THEN PLRelease ELSE PLCancel(task, class)

\* `async with self.wallet_state_manager.lock` left by the task, if it is in it
WsmExit(task) == IF task = wsm_lock THEN None ELSE wsm_lock

\* new_peak_wallet is cancelled at an await at or after `async with low`
\* (lines 779-915)
new_peak_wallet_cancelled(p) ==
    /\ peak_pc[p] \in {"lock_wait"} \cup PeakInSection
    /\ LockExit(PeakTask(p), _new_peak_lock_low_priority)
    /\ wsm_lock' = WsmExit(PeakTask(p))
    /\ PeakEnd(p)
    /\ UNCHANGED <<_node_peaks, subVars, updVars, walletVars>>

\* state_update_received is cancelled at an await at or after
\* `async with high` (lines 710-718)
state_update_received_cancelled(u) ==
    /\ upd_pc[u] \in {"lock_wait", "receiving"}
    /\ LockExit(UpdTask(u), _new_peak_lock_high_priority)
    /\ wsm_lock' = WsmExit(UpdTask(u))
    /\ upd_pc' = [upd_pc EXCEPT ![u] = "cancelled"]
    /\ upd_key' = [upd_key EXCEPT ![u] = NoKey]
    /\ UNCHANGED <<subVars, peakVars, walletVars>>

\* _process_new_subscriptions is cancelled at an await at or after
\* `async with ultra` (lines 363-382): CancelledError is not an Exception,
\* the loop ends
_process_new_subscriptions_cancelled ==
    /\ sub_pc \in {"lock_wait", "subscribing", "ingesting"}
    /\ LockExit(SubTask, _new_peak_lock_ultra_priority)
    /\ wsm_lock' = WsmExit(SubTask)
    /\ sub_pc' = "cancelled"
    /\ sub_peer' = 0
    /\ item_excludes' = {}
    /\ UNCHANGED <<subscription_queue, subs_added, lost_excludes, updVars, peakVars, walletVars>>

NodeIdle == NodeInit

(***************************************************************************)
(* validate_received_state_from_peer: the validator of one coin state      *)
(* reported by an untrusted peer, with that peer's PeerRequestCache.  The   *)
(* calls of a run are for one coin; a coin state is identified by its      *)
(* heights (its hash).  The peer's answers are inputs of the steps.        *)
(***************************************************************************)
CoinHeights == 1 .. MaxCoinHeight
OptHeights == {NoneInt} \cup CoinHeights

\* CoinState: created_height and spent_height are Optional[uint32]
ReceivedStates == [created_height : OptHeights, spent_height : OptHeights]

\* WalletCoinRecord of the coin in the local coin store, NoRecord for None;
\* spent_block_height is 0 for an unspent coin
NoRecord == [confirmed_block_height |-> NoneInt, spent_block_height |-> NoneInt]
CoinRecords ==
    {NoRecord} \cup [confirmed_block_height : CoinHeights, spent_block_height : {0} \cup CoinHeights]

NoValArgs ==
    [coin_state |-> [created_height |-> NoneInt, spent_height |-> NoneInt],
     fork_height |-> NoneInt, current |-> NoRecord, cached |-> FALSE]

ValInit ==
    /\ val_pc = "idle"
    /\ val_args = NoValArgs
    /\ val_log = <<>>
    /\ val_result = "none"
    /\ val_closed = NoneInt
    /\ val_additions = "none"
    /\ val_block = "none"
    /\ states_validated = {}
    /\ cache_blocks = {}
    /\ val_calls = 0

\* can_use_peer_request_cache: the state is among the validated states and
\* its heights are at or before fork_height, or no fork is pending.
can_use_peer_request_cache(coin_state, fork_height) ==
    /\ coin_state \in states_validated
    /\ \/ fork_height = NoneInt
       \/ /\ coin_state.created_height = NoneInt \/ coin_state.created_height <= fork_height
          /\ coin_state.spent_height = NoneInt \/ coin_state.spent_height <= fork_height

\* lines 1034-1035: the early return on a cache hit
UseCache_Never(coin_state, fork_height) == coin_state \in {}

UseCache(coin_state, fork_height) == can_use_peer_request_cache(coin_state, fork_height)

\* lines 1042-1054: the remote state is the same as the local record
current_spent_height(current) ==
    IF current # NoRecord /\ current.spent_block_height # 0
    THEN current.spent_block_height ELSE NoneInt

SameAsCurrent(coin_state, current) ==
    /\ current # NoRecord
    /\ current_spent_height(current) = coin_state.spent_height
    /\ current.confirmed_block_height = coin_state.created_height

\* lines 1056-1060
reorg_mode(coin_state, current) ==
    current # NoRecord /\ coin_state.created_height = NoneInt

confirmed_height(coin_state, current) ==
    IF reorg_mode(coin_state, current)
    THEN current.confirmed_block_height ELSE coin_state.created_height

\* lines 1096: the peer says that a coin known as spent is not spent any more
PreviouslySpent(coin_state, current) ==
    /\ coin_state.spent_height = NoneInt
    /\ current # NoRecord
    /\ current.spent_block_height # 0

ValReturn(result) ==
    /\ val_pc' = "returned"
    /\ val_result' = result

\* the call: lines 1031-1063, up to the first use of the peer
validate_received_state_from_peer(coin_state, fork_height, current) ==
    /\ val_pc \in {"idle", "returned"}
    /\ val_calls < MaxValidations
    /\ val_calls' = val_calls + 1
    /\ val_args' = [coin_state |-> coin_state, fork_height |-> fork_height,
                    current |-> current, cached |-> coin_state \in states_validated]
    /\ val_log' = <<>>
    /\ val_closed' = NoneInt
    /\ val_additions' = "none"
    /\ IF UseCache(coin_state, fork_height) THEN ValReturn("true") /\ val_block' = "none"
       ELSE IF SameAsCurrent(coin_state, current) THEN ValReturn("true") /\ val_block' = "none"
       ELSE IF confirmed_height(coin_state, current) = NoneInt
            THEN ValReturn("false") /\ val_block' = "none"
       ELSE /\ val_pc' = "created_block"
            /\ val_result' = "none"
            /\ val_block' = "created"
    /\ UNCHANGED <<states_validated, cache_blocks>>

\* A header block is taken from peer_request_cache.blocks or requested and
\* cached.  how = "raises": the peer gave no answer (res is None) or the
\* block has no foliage_transaction_block (the assert fails).
HeaderBlock(height, use_cache, how, next_pc) ==
    /\ val_log' = IF use_cache THEN val_log ELSE Append(val_log, "request_header_blocks")
    /\ IF how = "raises"
       THEN /\ ValReturn("raised")
            /\ UNCHANGED cache_blocks
       ELSE /\ val_pc' = next_pc
            /\ cache_blocks' = cache_blocks \cup {height}
            /\ UNCHANGED val_result

\* Mutant of request_created_block: a cached block is used in reorg_mode too.
request_created_block_CacheInReorg(how) ==
    /\ val_pc = "created_block"
    /\ LET cs == val_args.coin_state
           h == confirmed_height(cs, val_args.current)
       IN HeaderBlock(h, h \in cache_blocks, how, "additions")
    /\ UNCHANGED <<val_args, val_closed, val_additions, val_block, states_validated, val_calls>>

\* lines 1065-1074
request_created_block(how) ==
    /\ val_pc = "created_block"
    /\ LET cs == val_args.coin_state
           h == confirmed_height(cs, val_args.current)
       IN HeaderBlock(h, h \in cache_blocks /\ ~reorg_mode(cs, val_args.current), how, "additions")
    /\ UNCHANGED <<val_args, val_closed, val_additions, val_block, states_validated, val_calls>>

\* line 1087: the additions proof is rejected
AdditionsRejected_Never(result) == result \notin BOOLEAN

AdditionsRejected(result) == result = FALSE

\* lines 1075-1090
request_and_validate_additions_returns(result) ==
    /\ val_pc = "additions"
    /\ val_additions' = IF result THEN "true" ELSE "false"
    /\ IF AdditionsRejected(result)
       THEN /\ val_log' = val_log \o <<"request_and_validate_additions", "close">>
            /\ val_closed' = 9999
            /\ ValReturn("false")
       ELSE /\ val_log' = Append(val_log, "request_and_validate_additions")
            /\ val_pc' = "inclusion"
            /\ UNCHANGED <<val_closed, val_result>>
    /\ UNCHANGED <<val_args, val_block, states_validated, cache_blocks, val_calls>>

\* lines 1147-1148
ValFinish ==
    /\ states_validated' = states_validated \cup {val_args.coin_state}
    /\ ValReturn("true")

\* validate_block_inclusion of the block under check (lines 1093-1095,
\* 1121-1123, 1144-1146); its answer depends on the local chain, the synced
\* weight proof and the peer's header blocks.
validate_block_inclusion_returns(included) ==
    /\ val_pc = "inclusion"
    /\ val_log' = Append(val_log, "validate_block_inclusion")
    /\ LET cs == val_args.coin_state
       IN IF ~included THEN ValReturn("false") /\ UNCHANGED states_validated
          ELSE IF val_block = "created" /\ PreviouslySpent(cs, val_args.current)
               THEN /\ val_pc' = "old_spent_block"
                    /\ UNCHANGED <<val_result, states_validated>>
          ELSE IF val_block = "created" /\ cs.spent_height # NoneInt
               THEN /\ val_pc' = "spent_block"
                    /\ UNCHANGED <<val_result, states_validated>>
          ELSE ValFinish
    /\ UNCHANGED <<val_args, val_closed, val_additions, val_block, cache_blocks, val_calls>>

\* lines 1096-1109: reorg_mode is set, so the block is always requested
request_old_spent_block(how) ==
    /\ val_pc = "old_spent_block"
    /\ HeaderBlock(val_args.current.spent_block_height, FALSE, how, "removals")
    /\ val_block' = "old_spent"
    /\ UNCHANGED <<val_args, val_closed, val_additions, states_validated, val_calls>>

\* lines 1125-1135
request_spent_block(how) ==
    /\ val_pc = "spent_block"
    /\ LET h == val_args.coin_state.spent_height
       IN HeaderBlock(h, h \in cache_blocks, how, "removals")
    /\ val_block' = "spent"
    /\ UNCHANGED <<val_args, val_closed, val_additions, states_validated, val_calls>>

\* lines 1110-1120 and 1136-1143
request_and_validate_removals_returns(result) ==
    /\ val_pc = "removals"
    /\ IF result = FALSE
       THEN /\ val_log' = val_log \o <<"request_and_validate_removals", "close">>
            /\ val_closed' = 9999
            /\ ValReturn("false")
       ELSE /\ val_log' = Append(val_log, "request_and_validate_removals")
            /\ val_pc' = "inclusion"
            /\ UNCHANGED <<val_closed, val_result>>
    /\ UNCHANGED <<val_args, val_additions, val_block, states_validated, cache_blocks, val_calls>>

ValIdle == ValInit

(***************************************************************************)
(* fetch_and_validate_the_weight_proof with valid_wp_cache.  Its caller    *)
(* new_peak_wallet holds the priority lock, so the calls come one after    *)
(* the other.  A weight proof is identified by its hash; the proof with    *)
(* hash h ends at the block of height h and weight h.                      *)
(***************************************************************************)
WeightProofs == 1 .. NumProofs
WpPeaks == [height : 1 .. NumProofs, weight : 1 .. NumProofs]
NoWpPeak == [height |-> NoneInt, weight |-> NoneInt]

\* the tuple (valid, summaries, block_records) the validator gives for a
\* proof; the summaries and records are 0 for the empty lists
WpResults == [valid : {TRUE}, summaries : 1 .. 2] \cup [valid : {FALSE}, summaries : {0}]
WpFailed == [valid |-> FALSE, summaries |-> 0]
NoWpResult == [valid |-> FALSE, summaries |-> NoneInt]

\* a finished call: the hash of the proof received (NoneInt for no
\* response), whether the proof ended at the peak, whether the cache was
\* used, whether validate_weight_proof was called, and the result returned
NoWpCall ==
    [hash |-> NoneInt, matched |-> FALSE, cached |-> FALSE, validated |-> FALSE,
     result |-> NoWpResult]

WpInit ==
    /\ wp_pc = "idle"
    /\ wp_peak = NoWpPeak
    /\ wp_proof = NoneInt
    /\ valid_wp_cache = [wp \in WeightProofs |-> NoWpResult]
    /\ wp_prev = NoWpCall
    /\ wp_last = NoWpCall

WpReturn(call) ==
    /\ wp_pc' = "idle"
    /\ wp_prev' = wp_last
    /\ wp_last' = call
    /\ wp_proof' = NoneInt
    /\ wp_peak' = NoWpPeak

\* lines 963-970
fetch_and_validate_the_weight_proof(peak) ==
    /\ wp_pc = "idle"
    /\ wp_pc' = "requested"
    /\ wp_peak' = peak
    /\ UNCHANGED <<wp_proof, valid_wp_cache, wp_prev, wp_last>>

\* lines 977-980: recent_chain_data[-1] is not the peak asked for
WpMismatch(weight_proof, peak) ==
    weight_proof # peak.height \/ weight_proof # peak.weight

\* lines 970-984: the peer's response (NoneInt for None)
request_proof_of_weight_returns(weight_proof) ==
    /\ wp_pc = "requested"
    /\ IF weight_proof = NoneInt
       THEN WpReturn([NoWpCall EXCEPT !.result = WpFailed])
       ELSE IF WpMismatch(weight_proof, wp_peak)
       THEN WpReturn([NoWpCall EXCEPT !.hash = weight_proof, !.result = WpFailed])
       ELSE IF valid_wp_cache[weight_proof] # NoWpResult
       THEN WpReturn([hash |-> weight_proof, matched |-> TRUE, cached |-> TRUE,
                      validated |-> FALSE, result |-> valid_wp_cache[weight_proof]])
       ELSE /\ wp_pc' = "validating"
            /\ wp_proof' = weight_proof
            /\ UNCHANGED <<wp_peak, wp_prev, wp_last>>
    /\ UNCHANGED valid_wp_cache

\* line 993: only a valid result is cached
ShouldCache_Never(valid) == valid /\ ~valid

ShouldCache(valid) == valid

\* lines 985-998: weight_proof_handler.validate_weight_proof answers
validate_weight_proof_returns(result) ==
    /\ wp_pc = "validating"
    /\ valid_wp_cache' =
          IF ShouldCache(result.valid)
          THEN [valid_wp_cache EXCEPT ![wp_proof] = result]
          ELSE valid_wp_cache
    /\ WpReturn([hash |-> wp_proof, matched |-> TRUE, cached |-> FALSE,
                 validated |-> TRUE, result |-> result])

WpIdle == WpInit

(***************************************************************************)
(* wallet_short_sync_backtrack.  The local chain holds the blocks          *)
(* <<h, "local">> for the heights 0 .. peak; the chain of header_block is  *)
(* the local chain up to the height `common` (-1: nothing shared) and the  *)
(* blocks <<h, "new">> above it.  A block is identified by its hash.       *)
(***************************************************************************)
LocalPeakHeights == {2, 100}

BacktrackChains ==
    {c \in [peak : LocalPeakHeights, height : 0 .. 100 + MaxBacktrack,
            common : (0 - 1) .. 100, heavier : BOOLEAN] :
        /\ c.height >= c.peak - 1
        /\ c.height <= c.peak + MaxBacktrack - 1
        /\ c.common < c.height
        /\ c.common <= c.peak
        /\ c.common >= c.height - MaxBacktrack}

NoChain == [peak |-> NoneInt, height |-> NoneInt, common |-> NoneInt, heavier |-> FALSE]

BtInit ==
    /\ bt_pc = "idle"
    /\ bt_chain = NoChain
    /\ bt_top = NoneInt
    /\ bt_blocks = <<>>
    /\ bt_fork_height = NoneInt
    /\ bt_rollback = None
    /\ bt_caches = None
    /\ bt_received = <<>>
    /\ bt_result = None

\* header_hash of the block at a height of the chain of header_block
HeaderHash(chain, height) ==
    IF height <= chain.common THEN <<height, "local">> ELSE <<height, "new">>

\* prev_header_hash of the block at a height of header_block's chain
prev_header_hash(chain, height) == HeaderHash(chain, height - 1)

\* wallet_state_manager.blockchain.contains_block
contains_block(chain, hash) ==
    hash[2] = "local" /\ hash[1] >= 0 /\ hash[1] <= chain.peak

\* lines 927 and 937: the fork height below a block whose predecessor is known
ForkBelow_AtTop(height) == height

ForkBelow(height) == height - 1

\* lines 917-927: the call, up to the loop
wallet_short_sync_backtrack(chain) ==
    /\ bt_pc = "idle"
    /\ bt_chain' = chain
    /\ bt_top' = chain.height
    /\ bt_blocks' = <<chain.height>>
    /\ bt_fork_height' =
          IF contains_block(chain, prev_header_hash(chain, chain.height))
          THEN ForkBelow(chain.height) ELSE 0
    /\ bt_pc' = "fetch"
    /\ UNCHANGED <<bt_rollback, bt_caches, bt_received, bt_result>>

\* line 929: the condition of the while loop
MustFetch == ~contains_block(bt_chain, prev_header_hash(bt_chain, bt_top)) /\ bt_top > 0

\* lines 929-937: one turn of the loop; the peer answers the request for the
\* header at top.height - 1 with that block of its chain, or not at all
request_block_header_returns(answered) ==
    /\ bt_pc = "fetch"
    /\ MustFetch
    /\ IF answered
       THEN /\ bt_blocks' = Append(bt_blocks, bt_top - 1)
            /\ bt_top' = bt_top - 1
            /\ bt_fork_height' = ForkBelow(bt_top - 1)
            /\ UNCHANGED <<bt_pc, bt_result>>
       ELSE /\ bt_pc' = "done"
            /\ bt_result' = "raised"
            /\ UNCHANGED <<bt_blocks, bt_top, bt_fork_height>>
    /\ UNCHANGED <<bt_chain, bt_rollback, bt_caches, bt_received>>

Reverse(s) == [k \in 1 .. Len(s) |-> s[Len(s) + 1 - k]]

\* lines 939-949: after the loop, up to the first receive_block
backtrack_rollback ==
    /\ bt_pc = "fetch"
    /\ ~MustFetch
    /\ bt_blocks' = Reverse(bt_blocks)
    /\ bt_rollback' = IF bt_fork_height < bt_chain.peak THEN <<bt_fork_height>> ELSE bt_rollback
    /\ bt_caches' = <<bt_fork_height>>
    /\ IF bt_chain.heavier
       THEN bt_pc' = "receive" /\ UNCHANGED bt_result
       ELSE bt_pc' = "done" /\ bt_result' = "raised"
    /\ UNCHANGED <<bt_chain, bt_top, bt_fork_height, bt_received>>

\* lines 950-956: receive_block of the next block, and the return
receive_block_returns(res) ==
    /\ bt_pc = "receive"
    /\ bt_received' = Append(bt_received, bt_blocks[Len(bt_received) + 1])
    /\ IF res = "INVALID_BLOCK"
       THEN bt_pc' = "done" /\ bt_result' = "raised"
       ELSE IF Len(bt_received') = Len(bt_blocks)
       THEN bt_pc' = "done" /\ bt_result' = <<bt_fork_height>>
       ELSE UNCHANGED <<bt_pc, bt_result>>
    /\ UNCHANGED <<bt_chain, bt_top, bt_blocks, bt_fork_height, bt_rollback, bt_caches>>

BtIdle == BtInit

(***************************************************************************)
(* long_sync: the two subscription loops (lines 483-525).  A pass of a     *)
(* loop sends every chunk of the list and feeds each response through      *)
(* receive_state_from_peer, which can add coins of interest; the wallet    *)
(* can derive more puzzle hashes after a pass.                             *)
(***************************************************************************)
PuzzleHashes == 1 .. MaxPuzzleHashes
CoinIds == 1 .. MaxCoinIds

LsInit ==
    /\ ls_pc = "idle"
    /\ continue_while = FALSE
    /\ all_puzzle_hashes = {}
    /\ already_checked_ph = {}
    /\ all_coin_ids = {}
    /\ already_checked_coin_ids = {}
    /\ puzzle_store = {}
    /\ coin_store = {}
    /\ ph_sent = {}
    /\ coin_sent = {}

\* long_sync is called on a wallet with the puzzle hashes phs and the coin
\* ids coins of interest (lines 483-485)
long_sync(phs, coins) ==
    /\ ls_pc \in {"idle", "returned"}
    /\ puzzle_store' = phs
    /\ coin_store' = coins
    /\ already_checked_ph' = {}
    /\ continue_while' = TRUE
    /\ all_puzzle_hashes' = phs
    /\ all_coin_ids' = {}
    /\ already_checked_coin_ids' = {}
    /\ ph_sent' = {}
    /\ coin_sent' = {}
    /\ ls_pc' = "ph_loop"

\* Mutant of puzzle_hash_loop: the test for unchecked puzzle hashes looks at
\* the list of the pass that just ended, not at the list read again.
puzzle_hash_loop_StaleList(more_phs, more_coins) ==
    /\ ls_pc = "ph_loop"
    /\ IF continue_while
         THEN /\ ph_sent' = ph_sent \cup (all_puzzle_hashes \ already_checked_ph)
              /\ already_checked_ph' = already_checked_ph \cup all_puzzle_hashes
              /\ puzzle_store' = puzzle_store \cup more_phs
              /\ coin_store' = coin_store \cup more_coins
              /\ all_puzzle_hashes' = puzzle_store'
              /\ continue_while' = (\E ph \in all_puzzle_hashes : ph \notin already_checked_ph')
              /\ UNCHANGED <<ls_pc, all_coin_ids, already_checked_coin_ids>>
         ELSE /\ continue_while' = FALSE
              /\ all_coin_ids' = coin_store
              /\ already_checked_coin_ids' = {}
              /\ ls_pc' = "coin_loop"
              /\ UNCHANGED <<ph_sent, already_checked_ph, puzzle_store, coin_store,
                             all_puzzle_hashes>>
    /\ UNCHANGED coin_sent

\* `while continue_while` over the puzzle hashes (lines 486-503): one pass,
\* or the exit to the lines 506-508
puzzle_hash_loop(more_phs, more_coins) ==
    /\ ls_pc = "ph_loop"
    /\ IF continue_while
         THEN /\ ph_sent' = ph_sent \cup (all_puzzle_hashes \ already_checked_ph)
              /\ already_checked_ph' = already_checked_ph \cup all_puzzle_hashes
              /\ puzzle_store' = puzzle_store \cup more_phs
              /\ coin_store' = coin_store \cup more_coins
              /\ all_puzzle_hashes' = puzzle_store'
              /\ continue_while' = (\E ph \in all_puzzle_hashes' : ph \notin already_checked_ph')
              /\ UNCHANGED <<ls_pc, all_coin_ids, already_checked_coin_ids>>
         ELSE /\ continue_while' = FALSE
              /\ all_coin_ids' = coin_store
              /\ already_checked_coin_ids' = {}
              /\ ls_pc' = "coin_loop"
              /\ UNCHANGED <<ph_sent, already_checked_ph, puzzle_store, coin_store,
                             all_puzzle_hashes>>
    /\ UNCHANGED coin_sent

\* `while continue_while` over the coin ids (lines 509-524): one pass, or
\* the exit to the end of long_sync
coin_id_loop(more_coins) ==
    /\ ls_pc = "coin_loop"
    /\ IF continue_while
         THEN /\ coin_sent' = coin_sent \cup all_coin_ids
              /\ already_checked_coin_ids' = already_checked_coin_ids \cup all_coin_ids
              /\ coin_store' = coin_store \cup more_coins
              /\ all_coin_ids' = coin_store'
              /\ continue_while' =
                    (\E coin_id \in all_coin_ids' : coin_id \notin already_checked_coin_ids')
              /\ UNCHANGED ls_pc
         ELSE /\ ls_pc' = "returned"
              /\ UNCHANGED <<continue_while, coin_sent, already_checked_coin_ids, coin_store,
                             all_coin_ids>>
    /\ UNCHANGED <<ph_sent, already_checked_ph, puzzle_store, all_puzzle_hashes>>

LsIdle == LsInit

(***************************************************************************)
(* new_peak_wallet, short-sync branch: the replay of the race cache for    *)
(* the blocks above the fork (lines 899-904).  It runs under the priority  *)
(* lock and the wallet lock, as add_state_to_race_cache does.              *)
(***************************************************************************)
RpInit == replayed = {}

\* `for potential_height in range(backtrack_fork_height + 1, peak.height + 1)`:
\* the states cached for the block at each height are passed to
\* receive_state_from_peer
replay_race_cache(backtrack_fork_height, peak_height) ==
    /\ replayed' = {header_hash \in DOMAIN race_cache :
                       backtrack_fork_height < header_hash /\ header_hash <= peak_height}
    /\ UNCHANGED raceVars

RpIdle == RpInit

(***************************************************************************)
(* Truncation of the peer's request cache while a validation of            *)
(* get_coin_state (lines 1294-1314, no lock) is in flight: a state update  *)
(* with a fork_height (line 566) or a rollback (lines 162-165) calls       *)
(* clear_after_height.                                                     *)
(***************************************************************************)
TrInit == cleared_at = NoneInt

ValInFlight == val_pc \notin {"idle", "returned"}

\* PeerRequestCache.clear_after_height(height): every cached block above
\* height and every validated state with a height above it is removed
clear_after_height(height) ==
    /\ cache_blocks' = {h \in cache_blocks : h <= height}
    /\ states_validated' = {cs \in states_validated :
                               cs.created_height <= height /\ cs.spent_height <= height}
    /\ cleared_at' = IF ~ValInFlight THEN cleared_at
                     ELSE IF cleared_at # NoneInt /\ cleared_at < height THEN cleared_at
                     ELSE height
    /\ UNCHANGED <<val_pc, val_args, val_log, val_result, val_closed, val_additions,
                   val_block, val_calls>>

TrIdle == TrInit

(***************************************************************************)
(* receive_state_from_peer: how a batch is admitted (lines 556-600), with  *)
(* the tasks counted and not told apart, so that a batch can be larger     *)
(* than the permits and the threshold of the throttle together.            *)
(***************************************************************************)
\* asyncio.Semaphore(6)
SemaphorePermits == 6
\* `while len(self.validation_semaphore._waiters) > 20`
WaitersThreshold == 20

AdmInit ==
    /\ adm_pc = "idle"
    /\ adm_items = 0
    /\ adm_created = 0
    /\ adm_started = 0
    /\ adm_waiting = 0
    /\ adm_active = 0

\* the call with n items, up to the loop over the items
receive_batch(n) ==
    /\ adm_pc \in {"idle", "returned"}
    /\ adm_pc' = "loop"
    /\ adm_items' = n
    /\ adm_created' = 0
    /\ adm_started' = 0
    /\ UNCHANGED <<adm_waiting, adm_active>>

\* one round of `for idx, potential_state in enumerate(items)` (lines
\* 570-598): the coroutine is created and appended, not started; then the
\* throttle sleeps while more than WaitersThreshold tasks wait
append_task ==
    /\ adm_pc = "loop"
    /\ IF adm_created = adm_items
         THEN adm_pc' = "gather" /\ UNCHANGED adm_created
         ELSE IF adm_created > 0 /\ adm_waiting > WaitersThreshold
                THEN UNCHANGED <<adm_pc, adm_created>>
                ELSE adm_created' = adm_created + 1 /\ UNCHANGED adm_pc
    /\ UNCHANGED <<adm_items, adm_started, adm_waiting, adm_active>>

\* asyncio.gather(*all_tasks) (line 600) starts the next task: it takes a
\* permit or joins the waiters of the semaphore
gather_starts_task ==
    /\ adm_pc = "gather"
    /\ adm_started < adm_created
    /\ adm_started' = adm_started + 1
    /\ IF adm_active < SemaphorePermits
         THEN adm_active' = adm_active + 1 /\ UNCHANGED adm_waiting
         ELSE adm_waiting' = adm_waiting + 1 /\ UNCHANGED adm_active
    /\ UNCHANGED <<adm_pc, adm_items, adm_created>>

\* a task leaves `async with self.validation_semaphore`: its permit goes to
\* a waiter if there is one
task_leaves ==
    /\ adm_active > 0
    /\ IF adm_waiting > 0
         THEN adm_waiting' = adm_waiting - 1 /\ UNCHANGED adm_active
         ELSE adm_active' = adm_active - 1 /\ UNCHANGED adm_waiting
    /\ UNCHANGED <<adm_pc, adm_items, adm_created, adm_started>>

\* gather returns when every task has ended
gather_returns ==
    /\ adm_pc = "gather"
    /\ adm_started = adm_created
    /\ adm_active = 0
    /\ adm_pc' = "returned"
    /\ UNCHANGED <<adm_items, adm_created, adm_started, adm_waiting, adm_active>>

AdmIdle == AdmInit

(***************************************************************************)
(* new_peak_wallet, untrusted long-sync branch: the weight proof that is   *)
(* installed as blockchain.synced_weight_proof (lines 833-863).  A proof   *)
(* is modelled by the weight of its last recent-chain block.  The branch   *)
(* runs inside the low-priority lock, one handler at a time.               *)
(***************************************************************************)
ProofWeights == 1 .. MaxProofWeight

NwpInit ==
    /\ nwp_pc = "idle"
    /\ validated_proof = NoneInt
    /\ old_proof = NoneInt
    /\ synced_weight_proof = NoneInt
    /\ nwp_calls = {}

\* WalletBlockchain.new_weight_proof(weight_proof, records): installs the
\* proof and its records
new_weight_proof(proof) ==
    synced_weight_proof' = proof

\* fetch_and_validate_the_weight_proof returned a valid proof for the peak;
\* old_proof is read.  The peak passed the weight checks at 771 and 783, and
\* the proof's last block is the peak (978-981): proofs lighter than the
\* installed one are left out.
weight_proof_validated(proof) ==
    /\ nwp_pc \in {"idle", "closed", "ended"}
    /\ synced_weight_proof = NoneInt \/ proof >= synced_weight_proof
    /\ validated_proof' = proof
    /\ old_proof' = synced_weight_proof
    /\ nwp_pc' = "validated"
    /\ nwp_calls' = {}
    /\ UNCHANGED synced_weight_proof

\* line 853: `await self.wallet_state_manager.blockchain.new_weight_proof(
\* weight_proof, block_records)`, with no condition
install_before_long_sync ==
    /\ nwp_pc = "validated"
    /\ new_weight_proof(validated_proof)
    /\ nwp_calls' = nwp_calls \cup {<<853, synced_weight_proof, validated_proof>>}
    /\ nwp_pc' = "installed"
    /\ UNCHANGED <<validated_proof, old_proof>>

\* lines 854-858: long_sync returns, or raises and the handler closes the
\* peer in the except clause at 864-868
long_sync_ends(raised) ==
    /\ nwp_pc = "installed"
    /\ nwp_pc' = IF raised THEN "closed" ELSE "synced"
    /\ UNCHANGED <<validated_proof, old_proof, synced_weight_proof, nwp_calls>>

\* lines 859-863: the proof is installed again if none is installed or its
\* last block is strictly heavier than the installed one's
reinstall_if_heavier ==
    /\ nwp_pc = "synced"
    /\ IF synced_weight_proof = NoneInt \/ validated_proof > synced_weight_proof
         THEN /\ new_weight_proof(validated_proof)
              /\ nwp_calls' = nwp_calls \cup {<<863, synced_weight_proof, validated_proof>>}
         ELSE UNCHANGED <<synced_weight_proof, nwp_calls>>
    /\ nwp_pc' = "ended"
    /\ UNCHANGED <<validated_proof, old_proof>>

NwpIdle == NwpInit

(***************************************************************************)
(* new_peak_wallet, untrusted long-sync branch: the sync-mode flag of the  *)
(* wallet state manager (lines 828-872).  The branch runs inside the       *)
(* low-priority lock, so one handler at a time is between 828 and 872.     *)
(***************************************************************************)
Syncs == 1 .. NumSyncs

SmInit ==
    /\ sync_mode = FALSE
    /\ sm_pc = [h \in Syncs |-> "new"]
    /\ sm_syncing = [h \in Syncs |-> FALSE]
    /\ sm_how = [h \in Syncs |-> "none"]
    /\ sm_synced = FALSE

SmInBranch == {h \in Syncs : sm_pc[h] \in {"fetching", "long_sync"}}

\* lines 828-832: `syncing = False; if far_behind or len(self.synced_peers)
\* == 0: syncing = True; set_sync_mode(True)`, then the weight proof is
\* requested
long_sync_branch(h, far_behind) ==
    /\ sm_pc[h] = "new"
    /\ SmInBranch = {}
    /\ LET syncing_now == far_behind \/ ~sm_synced
       IN /\ sm_syncing' = [sm_syncing EXCEPT ![h] = syncing_now]
          /\ sync_mode' = IF syncing_now THEN TRUE ELSE sync_mode
    /\ sm_pc' = [sm_pc EXCEPT ![h] = "fetching"]
    /\ UNCHANGED <<sm_how, sm_synced>>

\* the handler ends: `how` is recorded
SmEnd(h, how) ==
    /\ sm_pc' = [sm_pc EXCEPT ![h] = "ended"]
    /\ sm_how' = [sm_how EXCEPT ![h] = how]

\* lines 833-853: fetch_and_validate_the_weight_proof returns; an invalid
\* proof clears sync-mode (if syncing), closes the peer and returns
weight_proof_returns(h, valid) ==
    /\ sm_pc[h] = "fetching"
    /\ IF valid
         THEN /\ sm_pc' = [sm_pc EXCEPT ![h] = "long_sync"]
              /\ UNCHANGED <<sync_mode, sm_how>>
         ELSE /\ sync_mode' = IF sm_syncing[h] THEN FALSE ELSE sync_mode
              /\ SmEnd(h, "invalid")
    /\ UNCHANGED <<sm_syncing, sm_synced>>

\* lines 854-863, 871-872: long_sync returns (the peer is in synced_peers,
\* line 535) and `if syncing: set_sync_mode(False)`
long_sync_returns(h) ==
    /\ sm_pc[h] = "long_sync"
    /\ sync_mode' = IF sm_syncing[h] THEN FALSE ELSE sync_mode
    /\ sm_synced' = TRUE
    /\ SmEnd(h, "success")
    /\ UNCHANGED sm_syncing

\* lines 864-870: an Exception raised by the fetch, the validation or
\* long_sync: `if syncing: set_sync_mode(False)`, close the peer, return
sync_raises_exception(h) ==
    /\ h \in SmInBranch
    /\ sync_mode' = IF sm_syncing[h] THEN FALSE ELSE sync_mode
    /\ SmEnd(h, "raised")
    /\ UNCHANGED <<sm_syncing, sm_synced>>

\* the task is cancelled at one of the awaits of 833-863: CancelledError
\* is a BaseException, `except Exception` (864) does not catch it and the
\* try has no finally
sync_cancelled(h) ==
    /\ h \in SmInBranch
    /\ SmEnd(h, "cancelled")
    /\ UNCHANGED <<sync_mode, sm_syncing, sm_synced>>

SmIdle == SmInit

(***************************************************************************)
(* new_peak_wallet, short-sync branch (lines 874-915) around the call of   *)
(* wallet_short_sync_backtrack.  The handler is inside `async with low`    *)
(* (779) when it reaches the branch.                                       *)
(***************************************************************************)
SsInit ==
    /\ ss_pc = "idle"
    /\ ss_locks = {"low"}
    /\ ss_log = {}

\* lines 877-878: `async with self.wallet_state_manager.lock:` and the call
short_sync_branch(chain) ==
    /\ ss_pc = "idle"
    /\ wallet_short_sync_backtrack(chain)
    /\ ss_pc' = "backtrack"
    /\ ss_locks' = ss_locks \cup {"wsm"}
    /\ UNCHANGED ss_log

\* Mutant of short_sync_backtrack_raised: the error of the backtrack is
\* caught inside the wallet lock and the handler goes on.
short_sync_backtrack_raised_Caught ==
    /\ ss_pc = "backtrack"
    /\ bt_pc = "done"
    /\ bt_result = "raised"
    /\ ss_pc' = "final"
    /\ ss_locks' = ss_locks \ {"wsm"}
    /\ ss_log' = ss_log \cup {"replayed"}
    /\ UNCHANGED btVars

\* wallet_short_sync_backtrack raised (935, 948, 954): the branch has no
\* except clause, the exception leaves `async with ...lock` (877) and
\* `async with low` (779) and ends the handler
short_sync_backtrack_raised ==
    /\ ss_pc = "backtrack"
    /\ bt_pc = "done"
    /\ bt_result = "raised"
    /\ ss_pc' = "ended"
    /\ ss_locks' = {}
    /\ UNCHANGED <<ss_log, btVars>>

\* lines 880-907: the backtrack returned; the peer is subscribed if it is
\* not in synced_peers, the race cache is replayed from the fork height,
\* and the wallet lock is left
short_sync_continues(peer_synced) ==
    /\ ss_pc = "backtrack"
    /\ bt_pc = "done"
    /\ bt_result # "raised"
    /\ ss_log' = ss_log \cup {"replayed"} \cup (IF peer_synced THEN {} ELSE {"subscribed"})
    /\ ss_locks' = ss_locks \ {"wsm"}
    /\ ss_pc' = "final"
    /\ UNCHANGED btVars

\* lines 909-915: set_finished_sync_up_to(peak.height) if the peak is above
\* it, wallet_state_manager.new_peak(peak), and the end of `async with low`
short_sync_final(advances) ==
    /\ ss_pc = "final"
    /\ ss_log' = ss_log \cup {"new_peak"} \cup (IF advances THEN {"finished_sync_up_to"} ELSE {})
    /\ ss_locks' = {}
    /\ ss_pc' = "ended"
    /\ UNCHANGED btVars

SsIdle == SsInit

(***************************************************************************)
(* validate_block_inclusion, the loop over the fetched range (lines        *)
(* 1231-1277).  `blocks` holds the header blocks of the range by rising    *)
(* height; reversed_blocks[idx] is the block at position len - idx of the  *)
(* range.                                                                  *)
(***************************************************************************)
SignatureWindow == 50

VbiInit ==
    /\ vbi_pc = "idle"
    /\ vbi_len = 0
    /\ vbi_idx = 0
    /\ vbi_verified = {}
    /\ vbi_result = "none"

\* line 1269: `if idx > len(reversed_blocks) - 50`
InSignatureWindow(idx, len) == idx > len - SignatureWindow

\* lines 1203-1232: the range of `len` blocks was fetched and reversed
reversed_blocks_ready(len) ==
    /\ vbi_pc \in {"idle", "returned"}
    /\ vbi_len' = len
    /\ vbi_idx' = 0
    /\ vbi_verified' = {}
    /\ vbi_result' = "none"
    /\ vbi_pc' = "loop"

\* lines 1240-1277: one turn of `for idx, en_block in enumerate(
\* reversed_blocks)`: the hash checks, then the signature check for the
\* blocks in the window; a failed check returns False, the end of the loop
\* returns True
check_en_block(checks_pass) ==
    /\ vbi_pc = "loop"
    /\ IF vbi_idx = vbi_len
         THEN /\ vbi_pc' = "returned"
              /\ vbi_result' = "True"
              /\ UNCHANGED <<vbi_idx, vbi_verified>>
         ELSE IF checks_pass
                THEN /\ vbi_verified' =
                           IF InSignatureWindow(vbi_idx, vbi_len)
                             THEN vbi_verified \cup {vbi_len - vbi_idx}
                             ELSE vbi_verified
                     /\ vbi_idx' = vbi_idx + 1
                     /\ UNCHANGED <<vbi_pc, vbi_result>>
                ELSE /\ vbi_pc' = "returned"
                     /\ vbi_result' = "False"
                     /\ UNCHANGED <<vbi_idx, vbi_verified>>
    /\ UNCHANGED vbi_len

VbiIdle == VbiInit

ExtIdle == ValIdle /\ WpIdle /\ BtIdle /\ LsIdle /\ RpIdle /\ TrIdle /\ AdmIdle /\ NwpIdle /\ SmIdle /\ SsIdle /\ VbiIdle

(***************************************************************************)
(* Specifications                                                          *)
(***************************************************************************)
\* LimitedSemaphore alone, created with any limits within the bounds.
SemSpecInit == SemInit /\ LockIdle /\ RaceIdle /\ RecvIdle /\ NodeIdle /\ ExtIdle
SemFrame == UNCHANGED <<lockVars, clientVars, raceVars, recvVars, nodeVars, extVars>>
SemSpecNext ==
    \/ \E t \in SemTasks : acquire_full(t) /\ SemFrame
    \/ \E t \in SemTasks : acquire_enter(t) /\ SemFrame
    \/ \E t \in SemTasks : acquire_wait(t) /\ SemFrame
    \/ \E t \in SemTasks : acquire_granted(t) /\ SemFrame
    \/ \E t \in SemTasks, how \in {"returned", "raised", "cancelled"} :
          leave(t, how) /\ SemFrame
    \/ \E t \in SemTasks : cancel_waiting(t) /\ SemFrame
SpecSem == SemSpecInit /\ [][SemSpecNext]_vars

\* The priority lock alone, with anonymous clients.
LockSpecInit == SemIdle /\ LockQueue(MaxQueue) /\ ClientInit /\ RaceIdle /\ RecvIdle /\ NodeIdle /\ ExtIdle
LockFrame == UNCHANGED <<semVars, raceVars, recvVars, nodeVars, extVars>>
LockSpecNext ==
    \/ \E kind \in Kinds : ClientEnter(kind) /\ LockFrame
    \/ \E kind \in Kinds : ClientArrive(kind) /\ LockFrame
    \/ \E kind \in Kinds : ClientRejected(kind) /\ LockFrame
    \/ ClientRelease /\ LockFrame
    \/ \E kind \in Kinds : ClientCancel(kind) /\ LockFrame
SpecLock == LockSpecInit /\ [][LockSpecNext]_vars

\* The priority lock with finitely many arrivals (MaxPerKind of each kind
\* queue), no waiter cancelled, and every holder leaving its block in the end.
LockLiveNext ==
    \/ \E kind \in Kinds : ClientEnter(kind) /\ LockFrame
    \/ \E kind \in Kinds : ClientArrive(kind) /\ LockFrame
    \/ \E kind \in Kinds : ClientRejected(kind) /\ LockFrame
    \/ ClientRelease /\ LockFrame
SpecLockLive == LockSpecInit /\ [][LockLiveNext]_vars /\ WF_vars(ClientRelease /\ LockFrame)

\* The race cache alone: coin states are race-cached for blocks at the
\* heights of RaceHeights, in any order.
RaceSpecInit == SemIdle /\ LockIdle /\ RaceInit /\ RecvIdle /\ NodeIdle /\ ExtIdle
RaceFrame == UNCHANGED <<semVars, lockVars, clientVars, recvVars, nodeVars, extVars>>
RaceSpecNext ==
    \E height \in RaceHeights, coin_state \in CoinStates :
        add_state_to_race_cache(height, height, coin_state) /\ RaceFrame
SpecRace == RaceSpecInit /\ [][RaceSpecNext]_vars

\* receive_state_from_peer, called again and again, with its tasks and the
\* race cache.
RecvSpecInit == SemIdle /\ LockIdle /\ RaceInit /\ RecvInit /\ NodeIdle /\ ExtIdle
RecvFrame == UNCHANGED <<semVars, lockVars, clientVars, nodeVars, extVars>>
RecvSpecNext ==
    \/ \E a \in RecvArgs : receive_state_from_peer(a) /\ RecvFrame
    \/ \E how \in {"returned", "raised"} : reorg_rollback_ends(how) /\ RecvFrame
    \/ \E i \in Items : receive_and_validate_start(i) /\ RecvFrame
    \/ \E i \in Items : receive_and_validate_admitted(i) /\ RecvFrame
    \/ \E i \in Items, valid \in BOOLEAN :
          validate_received_state_from_peer_returns(i, valid) /\ RecvFrame
    \/ \E i \in Items : validate_received_state_from_peer_raises(i) /\ RecvFrame
    \/ \E i \in Items : new_state_lock_granted(i) /\ RecvFrame
    \/ \E i \in Items, how \in {"returned", "raised"} : new_coin_state_ends(i, how) /\ RecvFrame
    \/ receive_state_from_peer_returns /\ RecvFrame
SpecRecv == RecvSpecInit /\ [][RecvSpecNext]_vars

\* The node: subscription items, state updates and new peaks of one chain
\* arrive in any order and their handlers interleave at their awaits.
NodeSpecInit ==
    SemIdle /\ LockQueue(NodeMaxQueue) /\ ClientInit /\ RaceIdle /\ RecvIdle /\ NodeInit
    /\ ExtIdle
NodeFrame == UNCHANGED <<semVars, clientVars, raceVars, recvVars, extVars>>
NodeSpecNext ==
    \/ subscription_put /\ NodeFrame
    \/ _process_new_subscriptions_take /\ NodeFrame
    \/ _process_new_subscriptions_granted /\ NodeFrame
    \/ \E nonempty \in BOOLEAN : subscribe_returns(nonempty) /\ NodeFrame
    \/ subscribe_raises /\ NodeFrame
    \/ \E how \in {"returned", "raised"} : subscribe_ingest_ends(how) /\ NodeFrame
    \/ \E u \in Updates, peer \in Peers, height \in Heights :
          state_update_received(u, peer, height) /\ NodeFrame
    \/ \E u \in Updates : state_update_received_granted(u) /\ NodeFrame
    \/ \E u \in Updates : state_update_received_ends(u) /\ NodeFrame
    \/ \E p \in PeakIds, msg \in ChainPeakMsgs : new_peak_wallet(p, msg) /\ NodeFrame
    \/ \E p \in PeakIds : new_peak_wallet_acquire(p) /\ NodeFrame
    \/ \E p \in PeakIds : new_peak_wallet_granted(p) /\ NodeFrame
    \/ \E p \in PeakIds : new_peak_wallet_recheck(p) /\ NodeFrame
    \/ \E p \in PeakIds : new_peak_wallet_leaves(p) /\ NodeFrame
    \/ \E p \in PeakIds, far_behind \in BOOLEAN, recent \in BOOLEAN, wp_sets_peak \in BOOLEAN :
          new_peak_wallet_sync(p, far_behind, recent, wp_sets_peak) /\ NodeFrame
    \/ \E p \in PeakIds : long_sync_check(p) /\ NodeFrame
    \/ \E p \in PeakIds : long_sync_set(p) /\ NodeFrame
    \/ \E p \in PeakIds : new_peak_wallet_final_check(p) /\ NodeFrame
    \/ \E p \in PeakIds : new_peak_wallet_set_finished(p) /\ NodeFrame
    \/ \E p \in PeakIds : new_peak_wallet_new_peak(p) /\ NodeFrame
SpecNode == NodeSpecInit /\ [][NodeSpecNext]_vars

\* New-peak notifications alone, from both peers and for competing chains
\* (any weight at any height).
PeaksSpecNext ==
    \/ \E p \in PeakIds, msg \in PeakMsgs : new_peak_wallet(p, msg) /\ NodeFrame
    \/ \E p \in PeakIds : new_peak_wallet_acquire(p) /\ NodeFrame
    \/ \E p \in PeakIds : new_peak_wallet_granted(p) /\ NodeFrame
    \/ \E p \in PeakIds : new_peak_wallet_recheck(p) /\ NodeFrame
    \/ \E p \in PeakIds : new_peak_wallet_leaves(p) /\ NodeFrame
    \/ \E p \in PeakIds, far_behind \in BOOLEAN, recent \in BOOLEAN, wp_sets_peak \in BOOLEAN :
          new_peak_wallet_sync(p, far_behind, recent, wp_sets_peak) /\ NodeFrame
    \/ \E p \in PeakIds : long_sync_check(p) /\ NodeFrame
    \/ \E p \in PeakIds : long_sync_set(p) /\ NodeFrame
    \/ \E p \in PeakIds : new_peak_wallet_final_check(p) /\ NodeFrame
    \/ \E p \in PeakIds : new_peak_wallet_set_finished(p) /\ NodeFrame
    \/ \E p \in PeakIds : new_peak_wallet_new_peak(p) /\ NodeFrame
SpecPeaks == NodeSpecInit /\ [][PeaksSpecNext]_vars

\* New-peak notifications with the peers connecting and disconnecting at any
\* moment.
PeersSpecNext ==
    \/ \E p \in PeakIds, msg \in PeakMsgs : new_peak_wallet(p, msg) /\ NodeFrame
    \/ \E p \in PeakIds : new_peak_wallet_acquire(p) /\ NodeFrame
    \/ \E p \in PeakIds : new_peak_wallet_granted(p) /\ NodeFrame
    \/ \E p \in PeakIds : new_peak_wallet_recheck(p) /\ NodeFrame
    \/ \E p \in PeakIds : new_peak_wallet_leaves(p) /\ NodeFrame
    \/ \E p \in PeakIds, far_behind \in BOOLEAN, recent \in BOOLEAN, wp_sets_peak \in BOOLEAN :
          new_peak_wallet_sync(p, far_behind, recent, wp_sets_peak) /\ NodeFrame
    \/ \E p \in PeakIds : long_sync_check(p) /\ NodeFrame
    \/ \E p \in PeakIds : long_sync_set(p) /\ NodeFrame
    \/ \E p \in PeakIds : new_peak_wallet_final_check(p) /\ NodeFrame
    \/ \E p \in PeakIds : new_peak_wallet_set_finished(p) /\ NodeFrame
    \/ \E p \in PeakIds : new_peak_wallet_new_peak(p) /\ NodeFrame
    \/ \E peer \in Peers : on_disconnect(peer) /\ NodeFrame
    \/ \E peer \in Peers : on_connect(peer) /\ NodeFrame
SpecPeers == NodeSpecInit /\ [][PeersSpecNext]_vars

\* The node with its tasks cancelled at any await inside their `async with`
\* blocks (close()).  The lock does not look at what an update carries: the
\* updates are all of one peer and height.
CancelSpecNext ==
    \/ subscription_put /\ NodeFrame
    \/ _process_new_subscriptions_take /\ NodeFrame
    \/ _process_new_subscriptions_granted /\ NodeFrame
    \/ \E nonempty \in BOOLEAN : subscribe_returns(nonempty) /\ NodeFrame
    \/ subscribe_raises /\ NodeFrame
    \/ \E how \in {"returned", "raised"} : subscribe_ingest_ends(how) /\ NodeFrame
    \/ \E u \in Updates : state_update_received(u, PeerList[1], 1) /\ NodeFrame
    \/ \E u \in Updates : state_update_received_granted(u) /\ NodeFrame
    \/ \E u \in Updates : state_update_received_ends(u) /\ NodeFrame
    \/ \E p \in PeakIds, msg \in ChainPeakMsgs : new_peak_wallet(p, msg) /\ NodeFrame
    \/ \E p \in PeakIds : new_peak_wallet_acquire(p) /\ NodeFrame
    \/ \E p \in PeakIds : new_peak_wallet_granted(p) /\ NodeFrame
    \/ \E p \in PeakIds : new_peak_wallet_recheck(p) /\ NodeFrame
    \/ \E p \in PeakIds : new_peak_wallet_leaves(p) /\ NodeFrame
    \/ \E p \in PeakIds, far_behind \in BOOLEAN, recent \in BOOLEAN, wp_sets_peak \in BOOLEAN :
          new_peak_wallet_sync(p, far_behind, recent, wp_sets_peak) /\ NodeFrame
    \/ \E p \in PeakIds : long_sync_check(p) /\ NodeFrame
    \/ \E p \in PeakIds : long_sync_set(p) /\ NodeFrame
    \/ \E p \in PeakIds : new_peak_wallet_final_check(p) /\ NodeFrame
    \/ \E p \in PeakIds : new_peak_wallet_set_finished(p) /\ NodeFrame
    \/ \E p \in PeakIds : new_peak_wallet_new_peak(p) /\ NodeFrame
    \/ \E p \in PeakIds : new_peak_wallet_cancelled(p) /\ NodeFrame
    \/ \E u \in Updates : state_update_received_cancelled(u) /\ NodeFrame
    \/ _process_new_subscriptions_cancelled /\ NodeFrame
SpecCancel == NodeSpecInit /\ [][CancelSpecNext]_vars

\* The base parts at rest
BaseIdle == SemIdle /\ LockIdle /\ RaceIdle /\ RecvIdle /\ NodeIdle
baseVars == <<semVars, lockVars, clientVars, raceVars, recvVars, nodeVars>>

\* The validator, called again and again for states of one coin with any
\* fork height and any local record; the peer answers each request in any
\* way.
ValSpecInit == BaseIdle /\ ValInit /\ WpIdle /\ BtIdle /\ LsIdle /\ RpIdle /\ TrIdle /\ AdmIdle /\ NwpIdle /\ SmIdle /\ SsIdle /\ VbiIdle
ValFrame == UNCHANGED <<baseVars, wpVars, btVars, lsVars, rpVars, trVars, admVars, nwpVars, smVars, ssVars, vbiVars>>
ValSpecNext ==
    \/ \E coin_state \in ReceivedStates, fork_height \in OptHeights, current \in CoinRecords :
          validate_received_state_from_peer(coin_state, fork_height, current) /\ ValFrame
    \/ \E how \in {"ok", "raises"} : request_created_block(how) /\ ValFrame
    \/ \E result \in BOOLEAN : request_and_validate_additions_returns(result) /\ ValFrame
    \/ \E included \in BOOLEAN : validate_block_inclusion_returns(included) /\ ValFrame
    \/ \E how \in {"ok", "raises"} : request_old_spent_block(how) /\ ValFrame
    \/ \E how \in {"ok", "raises"} : request_spent_block(how) /\ ValFrame
    \/ \E result \in BOOLEAN : request_and_validate_removals_returns(result) /\ ValFrame
SpecValidate == ValSpecInit /\ [][ValSpecNext]_vars

\* Weight proofs are fetched and validated for any peak, one call after the
\* other; the peer sends any proof or none, the validator answers in any way.
WpSpecInit == BaseIdle /\ WpInit /\ ValIdle /\ BtIdle /\ LsIdle /\ RpIdle /\ TrIdle /\ AdmIdle /\ NwpIdle /\ SmIdle /\ SsIdle /\ VbiIdle
WpFrame == UNCHANGED <<baseVars, valVars, btVars, lsVars, rpVars, trVars, admVars, nwpVars, smVars, ssVars, vbiVars>>
WpSpecNext ==
    \/ \E peak \in WpPeaks : fetch_and_validate_the_weight_proof(peak) /\ WpFrame
    \/ \E weight_proof \in {NoneInt} \cup WeightProofs :
          request_proof_of_weight_returns(weight_proof) /\ WpFrame
    \/ \E result \in WpResults : validate_weight_proof_returns(result) /\ WpFrame
SpecWp == WpSpecInit /\ [][WpSpecNext]_vars

\* One short-sync backtrack for any local peak, new peak and common ancestor
\* within the bounds.
BtSpecInit == BaseIdle /\ BtInit /\ ValIdle /\ WpIdle /\ LsIdle /\ RpIdle /\ TrIdle /\ AdmIdle /\ NwpIdle /\ SmIdle /\ SsIdle /\ VbiIdle
BtFrame == UNCHANGED <<baseVars, valVars, wpVars, lsVars, rpVars, trVars, admVars, nwpVars, smVars, ssVars, vbiVars>>
BtSpecNext ==
    \/ \E chain \in BacktrackChains : wallet_short_sync_backtrack(chain) /\ BtFrame
    \/ \E answered \in BOOLEAN : request_block_header_returns(answered) /\ BtFrame
    \/ backtrack_rollback /\ BtFrame
    \/ \E res \in {"NEW_PEAK", "ADDED_AS_ORPHAN", "INVALID_BLOCK"} :
          receive_block_returns(res) /\ BtFrame
SpecBacktrack == BtSpecInit /\ [][BtSpecNext]_vars

\* long_sync, called again and again on a wallet with any puzzle hashes and
\* coin ids of interest; more of both can appear while it runs.
LsSpecInit == BaseIdle /\ LsInit /\ ValIdle /\ WpIdle /\ BtIdle /\ RpIdle /\ TrIdle /\ AdmIdle /\ NwpIdle /\ SmIdle /\ SsIdle /\ VbiIdle
LsFrame == UNCHANGED <<baseVars, valVars, wpVars, btVars, rpVars, trVars, admVars, nwpVars, smVars, ssVars, vbiVars>>
LsSpecNext ==
    \/ \E phs \in SUBSET PuzzleHashes, coins \in SUBSET CoinIds : long_sync(phs, coins) /\ LsFrame
    \/ \E more_phs \in SUBSET PuzzleHashes, more_coins \in SUBSET CoinIds :
          puzzle_hash_loop(more_phs, more_coins) /\ LsFrame
    \/ \E more_coins \in SUBSET CoinIds : coin_id_loop(more_coins) /\ LsFrame
SpecLongSync == LsSpecInit /\ [][LsSpecNext]_vars

\* The same, where a long_sync that is in its puzzle-hash loop keeps running:
\* every await of a pass returns.  The wallet derives puzzle hashes out of
\* PuzzleHashes only, so it stops deriving new ones.
SpecLongSyncLive ==
    /\ LsSpecInit
    /\ [][LsSpecNext]_vars
    /\ WF_vars(\E more_phs \in SUBSET PuzzleHashes, more_coins \in SUBSET CoinIds :
                  puzzle_hash_loop(more_phs, more_coins) /\ LsFrame)

\* Coin states are race-cached and new peaks replay the cache, in any order
\* (two coin states: the replay passes on whole sets).
RpSpecInit == BaseIdle /\ RpInit /\ ValIdle /\ WpIdle /\ BtIdle /\ LsIdle /\ TrIdle /\ AdmIdle /\ NwpIdle /\ SmIdle /\ SsIdle /\ VbiIdle
RpFrame == UNCHANGED <<semVars, lockVars, clientVars, recvVars, nodeVars, valVars, wpVars, btVars, lsVars, trVars, admVars, nwpVars, smVars, ssVars, vbiVars>>
RpSpecNext ==
    \/ \E height \in RaceHeights, coin_state \in {1, 2} :
          add_state_to_race_cache(height, height, coin_state) /\ UNCHANGED replayed /\ RpFrame
    \/ \E backtrack_fork_height \in {0} \cup RaceHeights, peak_height \in RaceHeights :
          replay_race_cache(backtrack_fork_height, peak_height) /\ RpFrame
SpecReplay == RpSpecInit /\ [][RpSpecNext]_vars

\* The validator with the cache truncated at any moment, also between the
\* steps of a validation.
TrSpecInit == BaseIdle /\ TrInit /\ ValInit /\ WpIdle /\ BtIdle /\ LsIdle /\ RpIdle /\ AdmIdle /\ NwpIdle /\ SmIdle /\ SsIdle /\ VbiIdle
TrFrame == UNCHANGED <<baseVars, wpVars, btVars, lsVars, rpVars, admVars, nwpVars, smVars, ssVars, vbiVars>>
TrSpecNext ==
    \/ \E coin_state \in ReceivedStates, fork_height \in OptHeights, current \in CoinRecords :
          /\ validate_received_state_from_peer(coin_state, fork_height, current)
          /\ cleared_at' = NoneInt
          /\ TrFrame
    \/ \E how \in {"ok", "raises"} : request_created_block(how) /\ UNCHANGED cleared_at /\ TrFrame
    \/ \E result \in BOOLEAN :
          request_and_validate_additions_returns(result) /\ UNCHANGED cleared_at /\ TrFrame
    \/ \E included \in BOOLEAN :
          validate_block_inclusion_returns(included) /\ UNCHANGED cleared_at /\ TrFrame
    \/ \E how \in {"ok", "raises"} : request_old_spent_block(how) /\ UNCHANGED cleared_at /\ TrFrame
    \/ \E how \in {"ok", "raises"} : request_spent_block(how) /\ UNCHANGED cleared_at /\ TrFrame
    \/ \E result \in BOOLEAN :
          request_and_validate_removals_returns(result) /\ UNCHANGED cleared_at /\ TrFrame
    \/ \E height \in CoinHeights : clear_after_height(height) /\ TrFrame
SpecTruncate == TrSpecInit /\ [][TrSpecNext]_vars

\* receive_state_from_peer, called again and again with batches of any size
\* up to MaxBatch; the tasks end in any order.
AdmSpecInit == BaseIdle /\ AdmInit /\ ValIdle /\ WpIdle /\ BtIdle /\ LsIdle /\ RpIdle /\ TrIdle /\ NwpIdle /\ SmIdle /\ SsIdle /\ VbiIdle
AdmFrame == UNCHANGED <<baseVars, valVars, wpVars, btVars, lsVars, rpVars, trVars, nwpVars, smVars, ssVars, vbiVars>>
AdmSpecNext ==
    \/ \E n \in 0 .. MaxBatch : receive_batch(n) /\ AdmFrame
    \/ append_task /\ AdmFrame
    \/ gather_starts_task /\ AdmFrame
    \/ task_leaves /\ AdmFrame
    \/ gather_returns /\ AdmFrame
SpecAdmission == AdmSpecInit /\ [][AdmSpecNext]_vars

\* Untrusted peers announce peaks that take the long-sync branch, one
\* handler after the other.
NwpSpecInit == BaseIdle /\ NwpInit /\ ValIdle /\ WpIdle /\ BtIdle /\ LsIdle /\ RpIdle /\ TrIdle /\ AdmIdle /\ SmIdle /\ SsIdle /\ VbiIdle
NwpFrame == UNCHANGED <<baseVars, valVars, wpVars, btVars, lsVars, rpVars, trVars, admVars, smVars, ssVars, vbiVars>>
NwpSpecNext ==
    \/ \E proof \in ProofWeights : weight_proof_validated(proof) /\ NwpFrame
    \/ install_before_long_sync /\ NwpFrame
    \/ \E raised \in BOOLEAN : long_sync_ends(raised) /\ NwpFrame
    \/ reinstall_if_heavier /\ NwpFrame
SpecInstall == NwpSpecInit /\ [][NwpSpecNext]_vars

\* Handlers take the untrusted long-sync branch one after the other and end
\* in each of the four ways.
SmSpecInit == BaseIdle /\ SmInit /\ ValIdle /\ WpIdle /\ BtIdle /\ LsIdle /\ RpIdle /\ TrIdle /\ AdmIdle /\ NwpIdle /\ SsIdle /\ VbiIdle
SmFrame == UNCHANGED <<baseVars, valVars, wpVars, btVars, lsVars, rpVars, trVars, admVars, nwpVars, ssVars, vbiVars>>
SmSpecNext ==
    \/ \E h \in Syncs, far_behind \in BOOLEAN : long_sync_branch(h, far_behind) /\ SmFrame
    \/ \E h \in Syncs, valid \in BOOLEAN : weight_proof_returns(h, valid) /\ SmFrame
    \/ \E h \in Syncs : long_sync_returns(h) /\ SmFrame
    \/ \E h \in Syncs : sync_raises_exception(h) /\ SmFrame
    \/ \E h \in Syncs : sync_cancelled(h) /\ SmFrame
SpecSyncMode == SmSpecInit /\ [][SmSpecNext]_vars

\* One new-peak handler in the short-sync branch: the backtrack over any
\* chain within the bounds, with any answers of the peer and any results of
\* receive_block, and what the handler does after it.
SsSpecInit == BaseIdle /\ SsInit /\ BtInit /\ ValIdle /\ WpIdle /\ LsIdle /\ RpIdle /\ TrIdle /\ AdmIdle /\ NwpIdle /\ SmIdle /\ VbiIdle
SsFrame == UNCHANGED <<baseVars, valVars, wpVars, lsVars, rpVars, trVars, admVars, nwpVars, smVars, vbiVars>>
SsSpecNext ==
    \/ \E chain \in BacktrackChains : short_sync_branch(chain) /\ SsFrame
    \/ \E answered \in BOOLEAN :
          request_block_header_returns(answered) /\ UNCHANGED ssVars /\ SsFrame
    \/ backtrack_rollback /\ UNCHANGED ssVars /\ SsFrame
    \/ \E res \in {"NEW_PEAK", "ADDED_AS_ORPHAN", "INVALID_BLOCK"} :
          receive_block_returns(res) /\ UNCHANGED ssVars /\ SsFrame
    \/ short_sync_backtrack_raised /\ SsFrame
    \/ \E peer_synced \in BOOLEAN : short_sync_continues(peer_synced) /\ SsFrame
    \/ \E advances \in BOOLEAN : short_sync_final(advances) /\ SsFrame
SpecShortSync == SsSpecInit /\ [][SsSpecNext]_vars

\* validate_block_inclusion over ranges of 1 .. MaxRange header blocks,
\* with any outcome of the checks.
VbiSpecInit == BaseIdle /\ VbiInit /\ ValIdle /\ WpIdle /\ BtIdle /\ LsIdle /\ RpIdle /\ TrIdle /\ AdmIdle /\ NwpIdle /\ SmIdle /\ SsIdle
VbiFrame == UNCHANGED <<baseVars, valVars, wpVars, btVars, lsVars, rpVars, trVars, admVars, nwpVars, smVars, ssVars>>
VbiSpecNext ==
    \/ \E len \in 1 .. MaxRange : reversed_blocks_ready(len) /\ VbiFrame
    \/ \E checks_pass \in BOOLEAN : check_en_block(checks_pass) /\ VbiFrame
SpecInclusion == VbiSpecInit /\ [][VbiSpecNext]_vars

(***************************************************************************)
(* Claims about LimitedSemaphore (checked under SpecSem)                   *)
(***************************************************************************)
AtCapacity == NumActive + NumWaiting = active_limit + waiting_limit

\* C6: in every reachable state the entrants holding an active slot are at
\* most active_limit, active plus waiting entrants are at most
\* active_limit + waiting_limit, and _available_count is what is left of
\* active_limit + waiting_limit after the active and waiting entrants.
C6_SemaphoreCounts ==
    /\ NumActive <= active_limit
    /\ NumActive + NumWaiting <= active_limit + waiting_limit
    /\ _available_count = active_limit + waiting_limit - (NumActive + NumWaiting)

\* C6 witness: every active slot is taken and a waiting slot is free again
\* because an entrant has just been cancelled while it was waiting.
C6_Witness ==
    /\ NumActive = active_limit
    /\ NumWaiting < waiting_limit
    /\ last_event = "cancelled"

\* C7: an acquire call is refused exactly when active + waiting equals
\* active_limit + waiting_limit; the refusal changes no counter; below
\* capacity (e.g. after one holder left) the call is admitted.
C7_FullExactlyAtCapacity ==
    [][\A t \in SemTasks :
        /\ acquire_full(t) =>
              /\ AtCapacity
              /\ UNCHANGED <<_available_count, _semaphore, _active_tasks, frames>>
        /\ (acquire_enter(t) \/ acquire_wait(t)) => ~AtCapacity
        /\ (CanCall(t) /\ AtCapacity) => ENABLED acquire_full(t)
        /\ (CanCall(t) /\ ~AtCapacity) =>
              (ENABLED acquire_enter(t) \/ ENABLED acquire_wait(t))]_vars

\* C7 witness: active_limit = 2, waiting_limit = 1, three entrants are in
\* (two active, one waiting) and the fourth concurrent acquire was refused.
C7_Witness ==
    /\ active_limit = 2
    /\ waiting_limit = 1
    /\ NumActive = 2
    /\ NumWaiting = 1
    /\ last_event = "full"

(***************************************************************************)
(* Claims about the priority lock (checked under SpecLock)                 *)
(***************************************************************************)
KindRank(kind) == CASE kind = "ultra" -> 0 [] kind = "high" -> 1 [] kind = "low" -> 2

\* C2: while the lock is held and no new waiter arrives, successive
\* releases hand the lock to the queued waiters in the order (ultra, FIFO),
\* (high, FIFO), (low, FIFO): every ultra waiter before any high waiter,
\* every high waiter before any low waiter, arrival order within a kind.
C2_PriorityOrder ==
    \A i, j \in 1 .. Len(grants) :
        i < j =>
            \/ KindRank(grants[i][1]) < KindRank(grants[j][1])
            \/ (grants[i][1] = grants[j][1] /\ grants[i][2] < grants[j][2])

\* C2 witness: 3 ultra, 3 high and 3 low waiters were queued behind a
\* holder and have acquired in the class order 0,0,0,1,1,1,2,2,2.
C2_Witness ==
    /\ Len(grants) = 9
    /\ [i \in 1 .. 9 |-> ClientPriority(grants[i][1])] = <<0, 0, 0, 1, 1, 1, 2, 2, 2>>

(***************************************************************************)
(* Claims about the race cache (checked under SpecRace)                    *)
(***************************************************************************)
\* C10: after add_state_to_race_cache(header_hash, height, coin_state) the
\* cache holds no entry inserted at a height rc_height with
\* height - rc_height >= 100, and the set under header_hash is exactly the
\* coin states inserted for that hash.
C10_EvictsOldEntries ==
    race_last # None =>
        /\ \A e \in race_inserted :
              race_last[2] - e[2] >= delete_threshold => e[1] \notin DOMAIN race_cache
        /\ race_cache[race_last[1]] = {e[3] : e \in {x \in race_inserted : x[1] = race_last[1]}}

(***************************************************************************)
(* Claims about receive_state_from_peer (checked under SpecRecv)           *)
(***************************************************************************)
Applied == {wallet_log[k][2] : k \in {j \in 1 .. Len(wallet_log) :
                                         wallet_log[j][1] = "new_coin_state"}}

\* C1: a coin state from an untrusted peer is applied (new_coin_state) only
\* if the validator returned true for that same coin state; for a trusted
\* peer the validator is never called and, when the call returns, every
\* item has been applied.
C1_AppliedOnlyIfValid ==
    /\ ~recv_args.trusted => \A i \in Applied : validated[i] = "true"
    /\ recv_args.trusted => \A i \in Items : validated[i] = "none"
    /\ (recv_args.trusted /\ recv_pc = "returned") => Applied = 1 .. recv_args.n

C1_Witness ==
    /\ recv_pc = "returned"
    /\ ~recv_args.trusted
    /\ \E i, j \in 1 .. recv_args.n :
          /\ validated[i] = "false" /\ i \notin Applied
          /\ validated[j] = "true" /\ j \in Applied

Rollbacks == {k \in 1 .. Len(wallet_log) : wallet_log[k][1] = "reorg_rollback"}

\* C9: for a trusted peer with fork_height and height present and
\* fork_height # height - 1, reorg_rollback(fork_height) is called exactly
\* once and before any item is applied; in every other case the call asks
\* for no rollback.
C9_RollbackOnceBeforeApply ==
    recv_pc # "idle" =>
        IF /\ recv_args.trusted
           /\ recv_args.fork_height # NoneInt
           /\ recv_args.height # NoneInt
           /\ recv_args.fork_height # recv_args.height - 1
          THEN Rollbacks = {1} /\ wallet_log[1][2] = recv_args.fork_height
          ELSE Rollbacks = {}

C9_Witness ==
    /\ recv_pc = "returned"
    /\ recv_args.trusted /\ recv_args.fork_height = 5 /\ recv_args.height = 10
    /\ recv_args.n >= 2
    /\ Len(wallet_log) = recv_args.n + 1

(***************************************************************************)
(* Claims about the handlers under the priority lock (checked under        *)
(* SpecNode; C8 under SpecPeaks)                                           *)
(***************************************************************************)
InSection ==
    (IF sub_pc \in {"subscribing", "ingesting"} THEN {SubTask} ELSE {})
    \cup {UpdTask(u) : u \in {v \in Updates : upd_pc[v] = "receiving"}}
    \cup {PeakTask(p) : p \in {q \in PeakIds : peak_pc[q] \in PeakInSection}}

\* C3: at most one task is inside the critical section of the priority
\* lock: the bodies of a subscription install, a state update and a
\* new-peak handler never overlap, nor do two bodies of one kind.
C3_OneInSection == Cardinality(InSection) <= 1 /\ (InSection # {} => InSection = {holder})

C3_Witness ==
    /\ \E u \in Updates : upd_pc[u] = "receiving"
    /\ \E u \in Updates : upd_pc[u] = "lock_wait"
    /\ \E p \in PeakIds : peak_pc[p] = "lock_wait"

\* C4: when a peer's update for height h was delivered before that peer's
\* new-peak for h, the update's receive_state has completed when the
\* critical section of the new-peak handler begins.
C4_UpdateBeforePeak ==
    \A p \in PeakIds : peak_pc[p] \in PeakInSection => \A u \in before[p] : upd_pc[u] = "done"

\* C5: once a subscription item was taken, no new-peak handler that had not
\* yet entered the critical section advances the peak before the item's
\* installation and ingestion have completed.
C5_SubscriptionBeforeAdvance ==
    [][\A p \in PeakIds :
          (new_peak_wallet_set_finished(p) \/ long_sync_set(p) \/ new_peak_wallet_new_peak(p))
              => p \notin item_excludes \cup lost_excludes]_vars

\* C8: finished_sync_up_to never decreases.
C8_FinishedNonDecreasing == [][finished_sync_up_to' >= finished_sync_up_to]_vars

C8_Witness ==
    \E p \in PeakIds : peak_pc[p] = "new_peak" /\ peak_msg[p].height < finished_sync_up_to

(***************************************************************************)
(* Claims about validate_received_state_from_peer (checked under           *)
(* SpecValidate)                                                           *)
(***************************************************************************)
ValReturned == val_pc = "returned"

\* C11 as stated: for a coin state already among the validated states and a
\* fork_height >= its created_height, the validator returns true without
\* any request to the peer.
C11_CachedAtOrAfterCreation ==
    ( /\ ValReturned
      /\ val_args.cached
      /\ val_args.coin_state.created_height # NoneInt
      /\ val_args.fork_height # NoneInt
      /\ val_args.fork_height >= val_args.coin_state.created_height )
    => val_result = "true" /\ val_log = <<>>

\* C11 amended: for a coin state already among the validated states, with a
\* created_height, and a fork_height that is at or after its created_height
\* and, if it is spent, its spent_height, the validator returns true without
\* any request to the peer.
C11_CachedBeforeFork ==
    ( /\ ValReturned
      /\ val_args.cached
      /\ val_args.coin_state.created_height # NoneInt
      /\ val_args.fork_height # NoneInt
      /\ val_args.fork_height >= val_args.coin_state.created_height
      /\ val_args.fork_height >= val_args.coin_state.spent_height )
    => val_result = "true" /\ val_log = <<>>

C11_Witness ==
    /\ ValReturned
    /\ val_args.cached
    /\ val_args.coin_state.spent_height # NoneInt
    /\ val_args.coin_state.created_height # NoneInt
    /\ val_args.fork_height >= val_args.coin_state.spent_height
    /\ val_args.fork_height >= val_args.coin_state.created_height
    /\ ~SameAsCurrent(val_args.coin_state, val_args.current)
    /\ val_result = "true"
    /\ val_log = <<>>

InLog(entry) == \E k \in 1 .. Len(val_log) : val_log[k] = entry

\* C12: when the additions proof for the coin at its creation height
\* validates to false, the validator closes the peer with code 9999, returns
\* false, makes no block-inclusion or spend check and does not add the state
\* to the validated states.
C12_BadAdditionsProof ==
    val_additions = "false" =>
        /\ ValReturned
        /\ val_closed = 9999
        /\ val_result = "false"
        /\ ~InLog("validate_block_inclusion")
        /\ ~InLog("request_and_validate_removals")
        /\ (val_args.coin_state \in states_validated) = val_args.cached

C12_Witness ==
    /\ val_additions = "false"
    /\ ValReturned
    /\ val_args.coin_state.spent_height # NoneInt
    /\ ~val_args.cached

(***************************************************************************)
(* Claims about fetch_and_validate_the_weight_proof (checked under SpecWp) *)
(***************************************************************************)
\* calls of validate_weight_proof made by the two latest calls
WpValidations ==
    (IF wp_prev.validated THEN 1 ELSE 0) + (IF wp_last.validated THEN 1 ELSE 0)

SameProofTwice ==
    /\ wp_pc = "idle"
    /\ wp_prev.hash # NoneInt
    /\ wp_prev.hash = wp_last.hash

\* C13 as stated: two successive calls that receive a weight proof with the
\* same hash call the external validator exactly once in total, and the
\* second call returns the cached result.
C13_ValidatedOnce ==
    SameProofTwice =>
        /\ WpValidations = 1
        /\ wp_last.cached
        /\ wp_last.result = wp_prev.result

\* C13 amended: two successive calls that receive a weight proof with the
\* same hash, which ends at the peak asked for in both calls, was not in
\* valid_wp_cache before the first call and is found valid by the external
\* validator, call the validator exactly once in total, and the second call
\* returns the cached result.
C13_ValidProofValidatedOnce ==
    ( /\ SameProofTwice
      /\ wp_prev.matched
      /\ wp_last.matched
      /\ ~wp_prev.cached
      /\ wp_prev.result.valid )
    => /\ WpValidations = 1
       /\ wp_last.cached
       /\ wp_last.result = wp_prev.result

C13_Witness ==
    /\ SameProofTwice
    /\ wp_prev.validated
    /\ wp_prev.result.valid
    /\ wp_last.matched
    /\ wp_last.cached
    /\ wp_last.result = wp_prev.result

(***************************************************************************)
(* Claims about wallet_short_sync_backtrack (checked under SpecBacktrack)  *)
(***************************************************************************)
\* the call returned for local peak 100 and a new peak at 103 whose highest
\* locally known ancestor is at height 99
Backtrack100To103 ==
    /\ bt_pc = "done"
    /\ bt_result # "raised"
    /\ bt_chain.peak = 100
    /\ bt_chain.height = 103
    /\ bt_chain.common = 99

\* some block of the new chain at the heights 100 .. 103 differs from the
\* local chain's block at that height
DiffersFromLocal ==
    \E h \in 100 .. 103 : h <= bt_chain.peak /\ h > bt_chain.common

\* C14 as stated: with local peak 100 and a new peak at 103 whose ancestor at
\* 99 is locally known, the backtrack returns fork_height 99, makes exactly
\* three receive_block applications and rolls the wallet back iff some block
\* in 100 .. 103 differs from the local chain.
C14_ThreeBlocksReceived ==
    Backtrack100To103 =>
        /\ bt_result = <<99>>
        /\ Len(bt_received) = 3
        /\ (bt_rollback # None) = DiffersFromLocal

\* C14 amended: with local peak 100 and a new peak at 103 whose highest
\* locally known ancestor is at height 99, the backtrack returns fork_height
\* 99, makes exactly four receive_block applications (the blocks 100 .. 103)
\* and rolls the wallet back iff some block in 100 .. 103 differs from the
\* local chain.
C14_FourBlocksReceived ==
    Backtrack100To103 =>
        /\ bt_result = <<99>>
        /\ bt_received = <<100, 101, 102, 103>>
        /\ (bt_rollback # None) = DiffersFromLocal

C14_Witness ==
    /\ Backtrack100To103
    /\ bt_rollback = <<99>>
    /\ Len(bt_received) = 4

(***************************************************************************)
(* Claims about the locks held at the wallet-state mutations (checked      *)
(* under SpecPeaks and SpecNode)                                           *)
(***************************************************************************)
\* the handlers that are at a wallet-state mutation: receive_state_from_peer
\* of the subscription loop and of a state update, set_finished_sync_up_to
\* of long_sync and of new_peak_wallet, wallet_state_manager.new_peak
Mutating ==
    (IF sub_pc = "ingesting" THEN {SubTask} ELSE {})
    \cup {UpdTask(u) : u \in {v \in Updates : upd_pc[v] = "receiving"}}
    \cup {PeakTask(p) : p \in {q \in PeakIds : peak_pc[q] \in {"ls_set", "fin_set", "new_peak"}}}

\* C15: every wallet-state mutation of the reconciler or the subscription
\* loop is executed while the task holds both the priority lock and the
\* wallet-state-manager lock.
C15_MutationsUnderBothLocks ==
    \A t \in Mutating : t = holder /\ t = wsm_lock

(***************************************************************************)
(* Claims about the peer bookkeeping (checked under SpecPeers)             *)
(***************************************************************************)
\* C16: synced_peers and _node_peaks are modified only by a task that holds
\* the priority lock at the moment of the modification, the modifications
\* of on_connect, on_disconnect and the entry of new_peak_wallet included.
C16_ModifiedByHolderOnly ==
    [][(synced_peers' # synced_peers \/ _node_peaks' # _node_peaks)
         => \E p \in PeakIds : PeakTask(p) = holder /\ peak_pc'[p] # peak_pc[p]]_vars

(***************************************************************************)
(* Claims about the tasks of receive_state_from_peer (checked under        *)
(* SpecRecv)                                                               *)
(***************************************************************************)
\* the tasks whose new_coin_state call is in progress
Applying == {i \in Items : task_pc[i] = "applying"}

\* the tasks that hold a permit of validation_semaphore
Admitted ==
    {i \in Items :
        task_pc[i] \in {"admitted", "validating", "lock_wait", "lock_granted", "applying"}}

\* C17: at most one new_coin_state call of receive_state_from_peer is in
\* progress at any time, whatever the number of validation tasks.
C17_OneApplication == Cardinality(Applying) <= 1

\* C17 witness: one task applies while another, validated too, waits for
\* new_state_lock.
C17_Witness ==
    /\ Applying # {}
    /\ \E j \in Items : task_pc[j] = "lock_wait" /\ validated[j] = "true"

\* C18: at any time at most as many tasks as validation_semaphore has
\* permits (6 in the source) are past the admission point, whatever the
\* batch size.
C18_BoundedAdmission ==
    validation_semaphore # NoneInt =>
        /\ Cardinality(Admitted) <= ValidationPermits
        /\ validation_semaphore + Cardinality(Admitted) = ValidationPermits

\* C18 witness: every permit is taken and a further task of the batch waits.
C18_Witness ==
    /\ Cardinality(Admitted) = ValidationPermits
    /\ sem_waiters # <<>>

\* C19: an exception raised by new_coin_state propagates to the caller of
\* receive_state_from_peer: the call does not return normally when the
\* application of an item has raised.
C19_ApplyErrorPropagates ==
    recv_pc = "returned" =>
        \A i \in Items : task_pc[i] = "logged" => validated[i] = "raised"

(***************************************************************************)
(* Claims about LimitedSemaphore and cancellation (checked under SpecSem)  *)
(***************************************************************************)
AllExited == \A t \in SemTasks : frames[t] = <<>>

\* C20: once every entrant has exited, by return, exception or cancellation,
\* while waiting or while holding a slot, every reservation is returned:
\* _available_count is active_limit + waiting_limit, _active_tasks is empty
\* and all active_limit permits are free.
C20_AllReturnedAfterExit ==
    AllExited =>
        /\ _available_count = active_limit + waiting_limit
        /\ _active_tasks = {}
        /\ _semaphore = active_limit

\* C20 witness: everyone has exited and the latest exit was a cancellation.
C20_Witness ==
    /\ AllExited
    /\ last_event = "cancelled"
    /\ _available_count = active_limit + waiting_limit

(***************************************************************************)
(* Claims about the exits of the critical sections (checked under          *)
(* SpecCancel)                                                             *)
(***************************************************************************)
Queued(task) == \E c \in Classes : \E i \in 1 .. Len(queues[c]) : queues[c][i] = task

\* C21: a handler that has ended (by an early return, to completion, by an
\* exception or by cancellation) neither holds the priority lock nor waits
\* for it, and the lock is never left free while a waiter is queued.
C21_EveryExitReleases ==
    /\ \A p \in PeakIds : peak_pc[p] \in {"new", "pre_check", "ended"} =>
          PeakTask(p) # holder /\ ~Queued(PeakTask(p))
    /\ \A u \in Updates : upd_pc[u] \in {"new", "done", "refused", "cancelled"} =>
          UpdTask(u) # holder /\ ~Queued(UpdTask(u))
    /\ sub_pc \in {"idle", "cancelled"} => SubTask # holder /\ ~Queued(SubTask)
    /\ ~held => in_queue = 0

C21_Witness ==
    /\ sub_pc = "cancelled"
    /\ \E u \in Updates : upd_pc[u] = "cancelled"
    /\ \E p, q \in PeakIds : peak_pc[p] = "ended" /\ peak_pc[q] \in PeakInSection

(***************************************************************************)
(* Claims about the progress of the priority lock (checked under           *)
(* SpecLockLive)                                                           *)
(***************************************************************************)
\* C22: with finitely many ultra and high arrivals and every holder
\* releasing in the end, every queued low-priority waiter eventually holds
\* the lock.
C22_LowEventuallyAcquires ==
    \A k \in 1 .. MaxPerKind : Queued(<<"low", k>>) ~> (<<"low", k>> = holder)

C22_Witness ==
    /\ <<"low", 1>> = holder
    /\ arrived["ultra"] >= 1
    /\ arrived["high"] >= 1
    /\ arrived["low"] >= 2

(***************************************************************************)
(* Claims about long_sync (checked under SpecLongSync)                     *)
(***************************************************************************)
\* C23: when long_sync returns, every coin id that get_coin_ids_to_subscribe
\* returns has been sent to the peer in a coin subscription.
C23_AllCoinIdsSubscribed == ls_pc = "returned" => coin_store \subseteq coin_sent

(***************************************************************************)
(* Claims about the list of the race cache (checked under SpecRace)        *)
(***************************************************************************)
\* C24: every header hash that is a key of race_cache is listed exactly
\* once in race_cache_hashes, with its height (the block at a height is
\* named by the height), and every listed hash is a key of race_cache.
C24_KeysListedOnce ==
    /\ \A header_hash \in DOMAIN race_cache :
          Cardinality({i \in 1 .. Len(race_cache_hashes) :
                          race_cache_hashes[i] = <<header_hash, header_hash>>}) = 1
    /\ \A i \in 1 .. Len(race_cache_hashes) : race_cache_hashes[i][2] \in DOMAIN race_cache

(***************************************************************************)
(* Claims about the replay of the race cache (checked under SpecReplay)    *)
(***************************************************************************)
\* C25: a replay removes from the race cache the entry of every block whose
\* states it feeds to receive_state, so that a later replay covering the
\* same block finds no entry.
C25_ReplayDrains ==
    [][\A backtrack_fork_height \in {0} \cup RaceHeights, peak_height \in RaceHeights :
          replay_race_cache(backtrack_fork_height, peak_height)
              => \A header_hash \in replayed' : header_hash \notin DOMAIN race_cache']_vars

(***************************************************************************)
(* Claims about the weight checks of new_peak_wallet (checked under        *)
(* SpecPeaks)                                                              *)
(***************************************************************************)
\* C26 as stated: at the check before the lock and at the check under it, a
\* new-peak whose weight is less than or equal to the local peak's weight
\* ends the handler and leaves the wallet as it is.
C26_IgnoresNotHeavier ==
    [][\A p \in PeakIds :
          ( /\ peak_pc[p] \in {"pre_check", "cs_check"}
            /\ peak_pc'[p] # peak_pc[p]
            /\ peak_weight # 0
            /\ peak_msg[p].weight <= peak_weight )
          => peak_pc'[p] = "ended" /\ UNCHANGED <<finished_sync_up_to, peak_weight, synced_peers>>
      ]_vars

\* C26 amended: at both checks a new-peak whose weight is less than the local
\* peak's weight ends the handler and leaves the wallet as it is; one of the
\* same weight as the local peak passes the check under the lock and goes on
\* to probe the peer.
C26_IgnoresLighter ==
    [][\A p \in PeakIds :
          /\ ( /\ peak_pc[p] \in {"pre_check", "cs_check"}
               /\ peak_pc'[p] # peak_pc[p]
               /\ peak_weight # 0
               /\ peak_msg[p].weight < peak_weight )
             => peak_pc'[p] = "ended" /\ UNCHANGED <<finished_sync_up_to, peak_weight, synced_peers>>
          /\ ( /\ peak_pc[p] = "cs_check"
               /\ peak_pc'[p] # peak_pc[p]
               /\ peak_msg[p].weight = peak_weight )
             => peak_pc'[p] = "probe"
      ]_vars

C26_Witness ==
    \E p, q \in PeakIds :
        /\ peak_pc[p] = "probe" /\ peak_msg[p].weight = peak_weight
        /\ peak_pc[q] = "ended"

(***************************************************************************)
(* Claims about the truncation of the request cache (checked under         *)
(* SpecTruncate)                                                           *)
(***************************************************************************)
\* C27: once clear_after_height(h) has run while a validation was in flight,
\* that validation writes no header block and no validated state with a
\* height above h into the cache.
C27_InFlightDiscarded ==
    cleared_at # NoneInt =>
        /\ \A h \in cache_blocks : h <= cleared_at
        /\ \A cs \in states_validated :
              cs.created_height <= cleared_at /\ cs.spent_height <= cleared_at

(***************************************************************************)
(* Claims about the throttle of receive_state_from_peer (checked under     *)
(* SpecAdmission)                                                          *)
(***************************************************************************)
\* C28: the number of tasks waiting on the validation semaphore never
\* exceeds 21 (one more than the threshold of the throttle), whatever the
\* batch size.
C28_WaitersBounded == adm_waiting <= WaitersThreshold + 1

C30_EveryPeerSubscribed ==
    [][(sub_pc \in {"subscribing", "ingesting"} /\ sub_pc' = "idle")
          => sub_peer = Len(PeerList)]_vars

(***************************************************************************)
(* Claims about the task registry of LimitedSemaphore (checked under       *)
(* SpecSem)                                                                *)
(***************************************************************************)
\* C40: in every reachable state the number of entries of _active_tasks is
\* the number of acquire bodies that hold an active slot, also when a task
\* re-enters acquire while it holds a slot.
C40_ActiveTasksCount == Cardinality(_active_tasks) = NumActive

(***************************************************************************)
(* Claims about the sync-mode flag (checked under SpecSyncMode)            *)
(***************************************************************************)
\* C31: a handler that set sync-mode to true for an untrusted long sync
\* leaves sync-mode false when it ends, on every exit: invalid weight
\* proof, an error raised, cancellation of the task, and success.
C31_SyncModeCleared ==
    [][\A h \in Syncs :
          (sm_pc[h] # "ended" /\ sm_pc'[h] = "ended" /\ sm_syncing[h])
              => sync_mode' = FALSE]_vars

(***************************************************************************)
(* Claims about the fork height of the backtrack (checked under            *)
(* SpecBacktrack)                                                          *)
(***************************************************************************)
\* C36: wallet_short_sync_backtrack returns a fork height that is at least
\* 0 and passes no negative height to reorg_rollback or to
\* rollback_request_caches, also when no ancestor is locally known and the
\* backtrack reaches the header at height 0.
C36_ForkHeightNotNegative ==
    /\ bt_rollback # None => bt_rollback[1] >= 0
    /\ bt_caches # None => bt_caches[1] >= 0
    /\ (bt_pc = "done" /\ bt_result # "raised") => bt_result[1] >= 0

(***************************************************************************)
(* Claims about an invalid block in the backtrack (checked under           *)
(* SpecShortSync)                                                          *)
(***************************************************************************)
\* receive_block returned INVALID_BLOCK: the backtrack raised after it gave
\* a block to receive_block (the other errors come before the first one)
InvalidBlockRaised == bt_pc = "done" /\ bt_result = "raised" /\ bt_received # <<>>

\* C32: when receive_block returns INVALID_BLOCK during the backtrack, no
\* later header is applied, the race cache is not replayed, the handler
\* advances neither finished_sync_up_to nor the wallet peak, and it ends
\* holding neither the wallet lock nor the priority lock.
C32_InvalidBlockAborts ==
    [][/\ InvalidBlockRaised' =>
             /\ ss_log' = {}
             /\ ss_pc' \in {"backtrack", "ended"}
             /\ ss_pc' = "ended" => ss_locks' = {}
       /\ InvalidBlockRaised =>
             /\ bt_received' = bt_received
             /\ ss_pc' = "ended"]_vars

\* C32 witness: the handler has ended after the second of three or more
\* headers was found invalid.
C32_Witness ==
    /\ InvalidBlockRaised
    /\ ss_pc = "ended"
    /\ Len(bt_received) = 2
    /\ Len(bt_blocks) > 2

(***************************************************************************)
(* Claims about the puzzle-hash loop of long_sync (checked under           *)
(* SpecLongSyncLive)                                                       *)
(***************************************************************************)
\* C33: at the end of each pass the puzzle-hash loop of long_sync goes on
\* exactly when some puzzle hash the wallet reports is not in
\* already_checked_ph; when it exits, every reported puzzle hash has been
\* sent to the peer in a subscription request; and the loop is left once
\* the wallet derives no new puzzle hashes.
C33_PuzzleHashLoop ==
    /\ [][(ls_pc = "ph_loop" /\ continue_while)
             => /\ ls_pc' = "ph_loop"
                /\ continue_while' = ~(puzzle_store' \subseteq already_checked_ph')]_vars
    /\ [][(ls_pc = "ph_loop" /\ ls_pc' = "coin_loop")
             => /\ puzzle_store \subseteq already_checked_ph
                /\ puzzle_store \subseteq ph_sent]_vars
    /\ (ls_pc = "ph_loop") ~> (ls_pc = "coin_loop")

\* C33 witness: the loop was left after every puzzle hash within the bound
\* was reported and sent.
C33_Witness ==
    /\ ls_pc = "coin_loop"
    /\ puzzle_store = PuzzleHashes
    /\ ph_sent = PuzzleHashes

(***************************************************************************)
(* Claims about the signature checks of validate_block_inclusion (checked  *)
(* under SpecInclusion)                                                    *)
(***************************************************************************)
\* C34: when validate_block_inclusion has gone through a range of n header
\* blocks, the plot signature was verified for exactly the last 50 blocks
\* of the range (for all n blocks when n < 50) and for no other block.
C34_LastFiftyVerified ==
    (vbi_pc = "returned" /\ vbi_result = "True")
        => vbi_verified = {pos \in 1 .. vbi_len : pos > vbi_len - 50}

(***************************************************************************)
(* Claims about the header block of the created height (checked under      *)
(* SpecValidate)                                                           *)
(***************************************************************************)
\* the validation in progress is in reorg_mode, and the height it fetches
ValReorgMode == reorg_mode(val_args.coin_state, val_args.current)
ValCreatedHeight == confirmed_height(val_args.coin_state, val_args.current)

\* C35 as stated: in reorg_mode the header block fetched for
\* confirmed_height is not stored in the blocks map of the peer cache; it
\* is stored when reorg_mode is false.
C35_NotStoredInReorgMode ==
    [][(val_pc = "created_block" /\ val_pc' = "additions")
          => IF ValReorgMode
               THEN ValCreatedHeight \in cache_blocks' => ValCreatedHeight \in cache_blocks
               ELSE ValCreatedHeight \in cache_blocks']_vars

\* C35 amended: in reorg_mode the blocks map of the peer cache is not read
\* for confirmed_height: the header block is requested from the peer even
\* when the map holds one; when reorg_mode is false a block in the map is
\* used without a request.  In both modes the block that was requested is
\* stored in the map.
C35_NotReadInReorgMode ==
    [][(val_pc = "created_block" /\ val_pc' = "additions")
          => /\ ValCreatedHeight \in cache_blocks'
             /\ IF ValReorgMode \/ ValCreatedHeight \notin cache_blocks
                  THEN val_log' = Append(val_log, "request_header_blocks")
                  ELSE val_log' = val_log]_vars

\* C35 witness: a validation in reorg_mode has requested the block of a
\* height and the map holds the block of that height.
C35_Witness ==
    /\ val_pc = "additions"
    /\ ValReorgMode
    /\ val_log = <<"request_header_blocks">>
    /\ ValCreatedHeight \in cache_blocks
    /\ val_calls = 2

(***************************************************************************)
(* Claims about a disconnected peer (checked under SpecPeers)              *)
(***************************************************************************)
\* C37: once on_disconnect(peer) has run, the peer stays out of
\* synced_peers and _node_peaks until it connects again: while the peer has
\* no entry in _node_peaks (every new-peak of a connected peer sets one) and
\* is not in synced_peers, no step other than the delivery of a new peak of
\* that peer puts it into synced_peers, whatever was in flight for the peer
\* when it disconnected.
C37_DisconnectedStaysAbsent ==
    [][\A peer \in Peers :
          (_node_peaks[peer] = 0 /\ peer \notin synced_peers /\ _node_peaks'[peer] = 0)
              => peer \notin synced_peers']_vars

\* C38: when a handler takes the short-sync branch for an untrusted peer
\* that is not in synced_peers, the entry of the peer in _node_peaks exists
\* and is the peak the handler is processing, whatever new peaks of the
\* peer were delivered and whatever disconnections happened meanwhile.
C38_NodePeakIsOwnPeak ==
    [][\A p \in PeakIds :
          ( /\ peak_pc[p] = "probe"
            /\ peak_pc'[p] = "fin_get"
            /\ ~is_trusted(peak_msg[p].peer)
            /\ peak_msg[p].peer \notin synced_peers )
              => _node_peaks[peak_msg[p].peer] = peak_msg[p].height]_vars

(***************************************************************************)
(* Claims about the order of the locks (checked under SpecNode)            *)
(***************************************************************************)
\* the handlers suspended in `async with` of the priority lock
LockWaiters ==
    (IF sub_pc = "lock_wait" /\ holder # SubTask THEN {SubTask} ELSE {})
    \cup {UpdTask(u) : u \in {v \in Updates : upd_pc[v] = "lock_wait" /\ holder # UpdTask(v)}}
    \cup {PeakTask(p) : p \in {q \in PeakIds : peak_pc[q] = "lock_wait" /\ holder # PeakTask(q)}}

\* the waiters the priority lock has queued, in all classes
QueuedWaiters == UNION {{queues[c][i] : i \in 1 .. Len(queues[c])} : c \in Classes}

\* a step of a handler that was delivered before: a lock is granted to it,
\* a request to a peer returns or raises, or it goes on inside its locks
HandlerStep ==
    \/ _process_new_subscriptions_granted
    \/ \E nonempty \in BOOLEAN : subscribe_returns(nonempty)
    \/ subscribe_raises
    \/ \E how \in {"returned", "raised"} : subscribe_ingest_ends(how)
    \/ \E u \in Updates : state_update_received_granted(u)
    \/ \E u \in Updates : state_update_received_ends(u)
    \/ \E p \in PeakIds : new_peak_wallet_granted(p)
    \/ \E p \in PeakIds : new_peak_wallet_recheck(p)
    \/ \E p \in PeakIds : new_peak_wallet_leaves(p)
    \/ \E p \in PeakIds, far_behind \in BOOLEAN, recent \in BOOLEAN, wp_sets_peak \in BOOLEAN :
          new_peak_wallet_sync(p, far_behind, recent, wp_sets_peak)
    \/ \E p \in PeakIds : long_sync_check(p)
    \/ \E p \in PeakIds : long_sync_set(p)
    \/ \E p \in PeakIds : new_peak_wallet_final_check(p)
    \/ \E p \in PeakIds : new_peak_wallet_set_finished(p)
    \/ \E p \in PeakIds : new_peak_wallet_new_peak(p)

====
